---- MODULE Spec2Model ----
(***************************************************************************)
(* Sweet Shop backend: the Catalog Store and Credential Store (Prisma      *)
(* repositories), the Catalog, Inventory and Auth services on top of them, *)
(* the token service, the authenticate and requireAdmin middleware of the  *)
(* routes, the HTTP controllers with their zod schemas and status mapping, *)
(* and the seed script.                                                    *)
(*                                                                         *)
(* Every request is handled by one process.  A service method is an async  *)
(* function: it runs without interruption up to its next awaited store     *)
(* call, so each store call, together with the local computation that      *)
(* follows it up to the next store call, is one atomic step, and steps of  *)
(* different requests interleave freely.                                   *)
(***************************************************************************)
EXTENDS Integers, FiniteSets, Sequences, TLC

(***************************************************************************)
(* Bounds of the model.                                                    *)
(***************************************************************************)
\* Number of requests in flight together.
NProcs == 2
Procs == 1 .. NProcs

\* The sweet the catalog holds before the first request, and its quantity.
SeedSweetId == 1
InitQuantities == {0, 1, 10}
\* Ids the requests name: the seeded sweet and the first id create generates.
TargetIds == {1, 2}
\* Amounts a restock request carries.
RestockAmounts == {-1, 0, 5, 7}

VARIABLES
  sweets,       \* Catalog Store: table "sweets", id -> row
  nextSweetId,  \* next generated sweet id (ids are never reused)
  users,        \* Credential Store: table "users", id -> row
  nextUserId,   \* next generated user id
  pc,           \* per request: the store call it is about to make
  req,          \* per request: the operation and its arguments
  local,        \* per request: the value its first store call returned
  result,       \* per request: what the service call returned or threw
  response,     \* per request: the HTTP response, when it came through a controller
  calls,        \* per request: the store methods it has invoked
  sweets0,      \* history: the catalog before the first request
  now,          \* the server's clock, in hours
  http          \* per request: what the middleware of its route did with it

vars == <<sweets, nextSweetId, users, nextUserId, pc, req, local, result,
          response, calls, sweets0, now, http>>

(***************************************************************************)
(* Values.                                                                 *)
(***************************************************************************)
\* null / undefined / void
NoValue == [id |-> 0]
NoRequest == [op |-> "none"]
NoResponse == [status |-> 0]
\* A request that did not come through the middleware of a route.
NoHttp == [route |-> "none"]

Pending == [outcome |-> "pending", value |-> NoValue]
Success(v) == [outcome |-> "ok", value |-> v]
Failure(message) == [outcome |-> message, value |-> NoValue]

\* Error messages of the services.
SweetNotFound == "Sweet not found"
OutOfStock == "Sweet is out of stock"
InvalidRestock == "Restock quantity must be a positive number"
InvalidPrice == "Price must be a positive number"
InvalidQuantity == "Quantity must be a non-negative number"
\* Error Prisma raises from update/delete when no row has the id (P2025).
RecordNotFound == "P2025: Record to update or delete does not exist"

\* Error Prisma raises when a value does not fit the type of its column.
InvalidValue == "Invalid value provided. Expected Int, provided Float"

\* A JavaScript number with up to two decimals, counted in hundredths:
\* Decimal(1, 50) is 1.5.  Prices are kept in this form; the quantities of
\* the services and of the table are whole numbers, kept as they are.
Decimal(whole, hundredths) == 100 * whole + hundredths
isInteger(number) == number % 100 = 0

\* What a store call hands back: the table after it, and its value or error.
StoreOk(store, v) == [error |-> "", store |-> store, value |-> v]
StoreError(store, message) == [error |-> message, store |-> store, value |-> NoValue]

(***************************************************************************)
(* Catalog Store (SweetRepository).                                        *)
(***************************************************************************)
\* The price column is INTEGER: a price with decimals is rejected.
SweetRepository_create(store, id, data) ==
  LET row == [id |-> id, name |-> data.name, category |-> data.category,
              price |-> data.price, quantity |-> data.quantity]
  IN  IF ~isInteger(data.price)
      THEN StoreError(store, InvalidValue)
      ELSE StoreOk((id :> row) @@ store, row)

SweetRepository_findById(store, id) ==
  IF id \in DOMAIN store THEN store[id] ELSE NoValue

SweetRepository_existsById(store, id) ==
  SweetRepository_findById(store, id) # NoValue

\* data is a partial row: only the fields in its domain are written.
SweetRepository_update(store, id, data) ==
  IF "price" \in DOMAIN data /\ ~isInteger(data.price)
  THEN StoreError(store, InvalidValue)
  ELSE IF id \notin DOMAIN store
  THEN StoreError(store, RecordNotFound)
  ELSE LET row == [f \in DOMAIN store[id] |->
                     IF f \in DOMAIN data THEN data[f] ELSE store[id][f]]
       IN  StoreOk([store EXCEPT ![id] = row], row)

\* Variant: a delete that leaves the row in the table.
SweetRepository_delete_soft(store, id) ==
  IF id \notin DOMAIN store
  THEN StoreError(store, RecordNotFound)
  ELSE StoreOk(store, NoValue)

SweetRepository_delete(store, id) ==
  IF id \notin DOMAIN store
  THEN StoreError(store, RecordNotFound)
  ELSE StoreOk([i \in DOMAIN store \ {id} |-> store[i]], NoValue)

\* Variant: a decrement that stops at 0.
SweetRepository_decrementQuantity_floor(store, id) ==
  IF id \notin DOMAIN store
  THEN StoreError(store, RecordNotFound)
  ELSE LET row == [store[id] EXCEPT !.quantity = IF @ > 0 THEN @ - 1 ELSE 0]
       IN  StoreOk([store EXCEPT ![id] = row], row)

SweetRepository_decrementQuantity(store, id) ==
  IF id \notin DOMAIN store
  THEN StoreError(store, RecordNotFound)
  ELSE LET row == [store[id] EXCEPT !.quantity = @ - 1]
       IN  StoreOk([store EXCEPT ![id] = row], row)

\* Variant: the amount written as the new quantity instead of added to it.
SweetRepository_incrementQuantity_set(store, id, amount) ==
  IF id \notin DOMAIN store
  THEN StoreError(store, RecordNotFound)
  ELSE LET row == [store[id] EXCEPT !.quantity = amount]
       IN  StoreOk([store EXCEPT ![id] = row], row)

\* Variant: the increment applied to every row (an updateMany without where).
SweetRepository_incrementQuantity_all(store, id, amount) ==
  IF id \notin DOMAIN store
  THEN StoreError(store, RecordNotFound)
  ELSE LET after == [i \in DOMAIN store |->
                      [store[i] EXCEPT !.quantity = @ + amount]]
       IN  StoreOk(after, after[id])

SweetRepository_incrementQuantity(store, id, amount) ==
  IF id \notin DOMAIN store
  THEN StoreError(store, RecordNotFound)
  ELSE LET row == [store[id] EXCEPT !.quantity = @ + amount]
       IN  StoreOk([store EXCEPT ![id] = row], row)

(***************************************************************************)
(* The checks the services make before they write: "" lets the call go on, *)
(* anything else is the message of the Error thrown.                       *)
(***************************************************************************)
\* Variant: only a negative price rejected.
createSweetCheck_lt(data) ==
  IF data.price < 0 THEN InvalidPrice
  ELSE IF data.quantity < 0 THEN InvalidQuantity
  ELSE ""

createSweetCheck(data) ==
  IF data.price <= 0 THEN InvalidPrice
  ELSE IF data.quantity < 0 THEN InvalidQuantity
  ELSE ""

updateSweetCheck(exists, data) ==
  IF ~exists THEN SweetNotFound
  ELSE IF "price" \in DOMAIN data /\ data.price <= 0 THEN InvalidPrice
  ELSE IF "quantity" \in DOMAIN data /\ data.quantity < 0 THEN InvalidQuantity
  ELSE ""

deleteSweetCheck(exists) ==
  IF ~exists THEN SweetNotFound ELSE ""

\* Variant: the stock check written with < instead of <=.
purchaseSweetCheck_lt(sweet) ==
  IF sweet = NoValue THEN SweetNotFound
  ELSE IF sweet.quantity < 0 THEN OutOfStock
  ELSE ""

purchaseSweetCheck(sweet) ==
  IF sweet = NoValue THEN SweetNotFound
  ELSE IF sweet.quantity <= 0 THEN OutOfStock
  ELSE ""

\* Variant: the amount check written with < instead of <=.
restockSweetQuantityCheck_lt(quantity) ==
  IF quantity < 0 THEN InvalidRestock ELSE ""

restockSweetQuantityCheck(quantity) ==
  IF quantity <= 0 THEN InvalidRestock ELSE ""

restockSweetCheck(exists) ==
  IF ~exists THEN SweetNotFound ELSE ""

(***************************************************************************)
(* Request inputs.                                                         *)
(***************************************************************************)
CreateInputs ==
  { [name |-> "Ladoo", category |-> "Indian", price |-> Decimal(2, 0), quantity |-> 1],
    [name |-> "Ladoo", category |-> "Indian", price |-> Decimal(0, 0), quantity |-> 1],
    [name |-> "Ladoo", category |-> "Indian", price |-> Decimal(2, 0), quantity |-> -1],
    [name |-> "X", category |-> "Y", price |-> Decimal(1, 50), quantity |-> 10] }

UpdateInputs ==
  { ("quantity" :> 0), ("quantity" :> -1), ("price" :> Decimal(0, 0)),
    ("price" :> Decimal(3, 0)) @@ ("quantity" :> 2),
    ("price" :> Decimal(1, 50)) }

(***************************************************************************)
(* Steps of a request.                                                     *)
(***************************************************************************)
Finish(p, r) ==
  /\ pc' = [pc EXCEPT ![p] = "done"]
  /\ result' = [result EXCEPT ![p] = r]

\* The call goes on to its next store call when the check let it, else ends.
Proceed(p, error, next) ==
  /\ pc' = [pc EXCEPT ![p] = IF error = "" THEN next ELSE "done"]
  /\ result' = [result EXCEPT ![p] = IF error = "" THEN Pending ELSE Failure(error)]

Invoke(p, method) == calls' = [calls EXCEPT ![p] = @ \cup {method}]

Settle(r) == IF r.error = "" THEN Success(r.value) ELSE Failure(r.error)

UnchangedUsers == UNCHANGED <<users, nextUserId, response, sweets0, now, http>>

\* SweetService.createSweet: validation, then SweetRepository.create.
SweetService_createSweet_with(p, data) ==
  LET error == createSweetCheck(data)
      r == SweetRepository_create(sweets, nextSweetId, data)
  IN  /\ pc[p] = "idle"
      /\ req' = [req EXCEPT ![p] = [op |-> "createSweet", id |-> 0, data |-> data]]
      /\ IF error = ""
         THEN /\ sweets' = r.store
              /\ nextSweetId' = nextSweetId + 1
              /\ Invoke(p, "create")
              /\ Finish(p, Settle(r))
         ELSE /\ Finish(p, Failure(error))
              /\ UNCHANGED <<sweets, nextSweetId, calls>>
      /\ UNCHANGED local
      /\ UnchangedUsers

SweetService_createSweet(p) ==
  \E data \in CreateInputs : SweetService_createSweet_with(p, data)

\* What getSweetById makes of the row findById returned.
getSweetByIdResult(sweet) ==
  IF sweet = NoValue THEN Failure(SweetNotFound) ELSE Success(sweet)

\* SweetService.getSweetById: findById, then the check of what it returned.
SweetService_getSweetById(p) ==
  \E id \in TargetIds :
    LET sweet == SweetRepository_findById(sweets, id)
    IN  /\ pc[p] = "idle"
        /\ req' = [req EXCEPT ![p] = [op |-> "getSweetById", id |-> id]]
        /\ local' = [local EXCEPT ![p] = sweet]
        /\ Invoke(p, "findById")
        /\ Finish(p, getSweetByIdResult(sweet))
        /\ UNCHANGED <<sweets, nextSweetId>>
        /\ UnchangedUsers

\* SweetService.updateSweet up to its update: existsById, then validation.
SweetService_updateSweet_existsById_with(p, id, data) ==
  LET exists == SweetRepository_existsById(sweets, id)
  IN  /\ pc[p] = "idle"
      /\ req' = [req EXCEPT ![p] = [op |-> "updateSweet", id |-> id, data |-> data]]
      /\ local' = [local EXCEPT ![p] = [exists |-> exists]]
      /\ Invoke(p, "existsById")
      /\ Proceed(p, updateSweetCheck(exists, data), "update")
      /\ UNCHANGED <<sweets, nextSweetId>>
      /\ UnchangedUsers

SweetService_updateSweet_existsById(p) ==
  \E id \in TargetIds, data \in UpdateInputs :
    SweetService_updateSweet_existsById_with(p, id, data)

SweetService_updateSweet_update(p) ==
  LET r == SweetRepository_update(sweets, req[p].id, req[p].data)
  IN  /\ pc[p] = "update"
      /\ sweets' = r.store
      /\ Invoke(p, "update")
      /\ Finish(p, Settle(r))
      /\ UNCHANGED <<nextSweetId, req, local>>
      /\ UnchangedUsers

\* SweetService.deleteSweet up to its delete: existsById.
SweetService_deleteSweet_existsById_with(p, id) ==
  LET exists == SweetRepository_existsById(sweets, id)
  IN  /\ pc[p] = "idle"
      /\ req' = [req EXCEPT ![p] = [op |-> "deleteSweet", id |-> id]]
      /\ local' = [local EXCEPT ![p] = [exists |-> exists]]
      /\ Invoke(p, "existsById")
      /\ Proceed(p, deleteSweetCheck(exists), "delete")
      /\ UNCHANGED <<sweets, nextSweetId>>
      /\ UnchangedUsers

SweetService_deleteSweet_existsById(p) ==
  \E id \in TargetIds : SweetService_deleteSweet_existsById_with(p, id)

SweetService_deleteSweet_delete(p) ==
  LET r == SweetRepository_delete(sweets, req[p].id)
  IN  /\ pc[p] = "delete"
      /\ sweets' = r.store
      /\ Invoke(p, "delete")
      /\ Finish(p, Settle(r))
      /\ UNCHANGED <<nextSweetId, req, local>>
      /\ UnchangedUsers

\* InventoryService.purchaseSweet up to its decrement: findById, then the
\* existence and stock checks on the row it read.
InventoryService_purchaseSweet_findById_with(p, id) ==
  LET sweet == SweetRepository_findById(sweets, id)
  IN  /\ pc[p] = "idle"
      /\ req' = [req EXCEPT ![p] = [op |-> "purchaseSweet", id |-> id]]
      /\ local' = [local EXCEPT ![p] = sweet]
      /\ Invoke(p, "findById")
      /\ Proceed(p, purchaseSweetCheck(sweet), "decrementQuantity")
      /\ UNCHANGED <<sweets, nextSweetId>>
      /\ UnchangedUsers

InventoryService_purchaseSweet_findById(p) ==
  \E id \in TargetIds : InventoryService_purchaseSweet_findById_with(p, id)

InventoryService_purchaseSweet_decrementQuantity(p) ==
  LET r == SweetRepository_decrementQuantity(sweets, req[p].id)
  IN  /\ pc[p] = "decrementQuantity"
      /\ sweets' = r.store
      /\ Invoke(p, "decrementQuantity")
      /\ Finish(p, Settle(r))
      /\ UNCHANGED <<nextSweetId, req, local>>
      /\ UnchangedUsers

\* InventoryService.restockSweet up to its increment: the check of the
\* amount, made before any store call, then existsById.
InventoryService_restockSweet_existsById_with(p, id, quantity) ==
  LET invalid == restockSweetQuantityCheck(quantity)
      exists == SweetRepository_existsById(sweets, id)
  IN  /\ pc[p] = "idle"
      /\ req' = [req EXCEPT ![p] =
                   [op |-> "restockSweet", id |-> id, quantity |-> quantity]]
      /\ IF invalid # ""
         THEN /\ Finish(p, Failure(invalid))
              /\ UNCHANGED <<local, calls>>
         ELSE /\ local' = [local EXCEPT ![p] = [exists |-> exists]]
              /\ Invoke(p, "existsById")
              /\ Proceed(p, restockSweetCheck(exists), "incrementQuantity")
      /\ UNCHANGED <<sweets, nextSweetId>>
      /\ UnchangedUsers

InventoryService_restockSweet_existsById(p) ==
  \E id \in TargetIds, quantity \in RestockAmounts :
    InventoryService_restockSweet_existsById_with(p, id, quantity)

InventoryService_restockSweet_incrementQuantity(p) ==
  LET r == SweetRepository_incrementQuantity(sweets, req[p].id, req[p].quantity)
  IN  /\ pc[p] = "incrementQuantity"
      /\ sweets' = r.store
      /\ Invoke(p, "incrementQuantity")
      /\ Finish(p, Settle(r))
      /\ UNCHANGED <<nextSweetId, req, local>>
      /\ UnchangedUsers

(***************************************************************************)
(* Specification of the catalog and inventory requests.                    *)
(***************************************************************************)
SeedSweet(q) ==
  [id |-> SeedSweetId, name |-> "Barfi", category |-> "Indian",
   price |-> Decimal(5, 0), quantity |-> q]

Init ==
  /\ \E q \in InitQuantities : sweets = (SeedSweetId :> SeedSweet(q))
  /\ sweets0 = sweets
  /\ nextSweetId = SeedSweetId + 1
  /\ users = << >>
  /\ nextUserId = 1
  /\ pc = [p \in Procs |-> "idle"]
  /\ req = [p \in Procs |-> NoRequest]
  /\ local = [p \in Procs |-> NoValue]
  /\ result = [p \in Procs |-> Pending]
  /\ response = [p \in Procs |-> NoResponse]
  /\ calls = [p \in Procs |-> {}]
  /\ now = 0
  /\ http = [p \in Procs |-> NoHttp]

CatalogStep(p) ==
  \/ SweetService_createSweet(p)
  \/ SweetService_getSweetById(p)
  \/ SweetService_updateSweet_existsById(p)
  \/ SweetService_updateSweet_update(p)
  \/ SweetService_deleteSweet_existsById(p)
  \/ SweetService_deleteSweet_delete(p)
  \/ InventoryService_purchaseSweet_findById(p)
  \/ InventoryService_purchaseSweet_decrementQuantity(p)
  \/ InventoryService_restockSweet_existsById(p)
  \/ InventoryService_restockSweet_incrementQuantity(p)

Next == \E p \in Procs : CatalogStep(p)

Spec == Init /\ [][Next]_vars

\* The same requests handled one after the other: a request takes a step
\* only while no other request is between two of its store calls.
NoneInFlightBut(p) == \A q \in Procs \ {p} : pc[q] \in {"idle", "done"}

NextSeq == \E p \in Procs : NoneInFlightBut(p) /\ CatalogStep(p)

SpecSeq == Init /\ [][NextSeq]_vars

(***************************************************************************)
(* Claims about the catalog and the inventory.                             *)
(***************************************************************************)
Done(p) == pc[p] = "done"
Called(p, op) == req[p].op = op
Succeeded(p) == result[p].outcome = "ok"

RECURSIVE SumQuantity(_)
SumQuantity(S) ==
  IF S = {} THEN 0
  ELSE LET p == CHOOSE x \in S : TRUE
       IN  req[p].quantity + SumQuantity(S \ {p})

\* C1: in every reachable state every stored Sweet has quantity >= 0.
C1_QuantityNonNegative ==
  \A id \in DOMAIN sweets : sweets[id].quantity >= 0

\* C2: when every request is a purchase of the same Sweet, whose quantity
\* was 1, at most one of them succeeds and every other one fails with
\* 'Sweet is out of stock'.
C2_OnePurchaseOfLastItem ==
  ( /\ sweets0[SeedSweetId].quantity = 1
    /\ \A p \in Procs :
         Done(p) /\ Called(p, "purchaseSweet") /\ req[p].id = SeedSweetId )
  => /\ Cardinality({p \in Procs : Succeeded(p)}) <= 1
     /\ \A p \in Procs : ~Succeeded(p) => result[p].outcome = OutOfStock

\* C3: a purchase that no other request interleaves with: from quantity
\* q > 0 it goes on to the decrement, returns the Sweet with quantity q - 1
\* and stores q - 1; from quantity 0 it fails with 'Sweet is out of stock',
\* never invokes decrementQuantity and leaves the catalog as it was.
C3_PurchaseAlone ==
  [][\A p \in Procs :
       /\ ( pc[p] = "idle" /\ req'[p].op = "purchaseSweet"
            /\ req'[p].id \in DOMAIN sweets )
          => IF sweets[req'[p].id].quantity = 0
             THEN /\ pc'[p] = "done"
                  /\ result'[p] = Failure(OutOfStock)
                  /\ "decrementQuantity" \notin calls'[p]
                  /\ sweets' = sweets
             ELSE /\ sweets[req'[p].id].quantity > 0
                  /\ pc'[p] = "decrementQuantity"
                  /\ local'[p] = sweets[req'[p].id]
                  /\ sweets' = sweets
       /\ ( pc[p] = "decrementQuantity" /\ pc'[p] = "done" )
          => /\ local[p].quantity > 0
             /\ result'[p] =
                  Success([local[p] EXCEPT !.quantity = local[p].quantity - 1])
             /\ sweets' = [sweets EXCEPT ![req[p].id] = result'[p].value]
    ]_vars

C3_Witness ==
  \E p, q \in Procs :
    /\ Done(p) /\ Called(p, "purchaseSweet") /\ Succeeded(p)
    /\ local[p].quantity = 1 /\ result[p].value.quantity = 0
    /\ Done(q) /\ Called(q, "purchaseSweet")
    /\ local[q].quantity = 0 /\ result[q].outcome = OutOfStock
    /\ calls[q] = {"findById"}

\* C4: a restock with a positive amount that reaches its increment while the
\* Sweet exists returns the Sweet with the stored quantity plus the amount
\* and stores that; a restock with an amount <= 0 fails with 'Restock
\* quantity must be a positive number', invokes no store method and leaves
\* the catalog as it was.
C4_Restock ==
  [][\A p \in Procs :
       /\ ( pc[p] = "idle" /\ req'[p].op = "restockSweet" )
          => IF req'[p].quantity <= 0
             THEN /\ pc'[p] = "done"
                  /\ result'[p] = Failure(InvalidRestock)
                  /\ calls'[p] = {}
                  /\ sweets' = sweets
             ELSE /\ sweets' = sweets
                  /\ req'[p].id \in DOMAIN sweets => pc'[p] = "incrementQuantity"
       /\ ( pc[p] = "incrementQuantity" /\ pc'[p] = "done"
            /\ req[p].id \in DOMAIN sweets )
          => /\ req[p].quantity > 0
             /\ Succeeded(p)'
             /\ result'[p].value =
                  [sweets[req[p].id] EXCEPT
                     !.quantity = sweets[req[p].id].quantity + req[p].quantity]
             /\ sweets' = [sweets EXCEPT ![req[p].id] = result'[p].value]
    ]_vars

C4_Witness ==
  \E p, q \in Procs :
    /\ Done(p) /\ Called(p, "restockSweet") /\ Succeeded(p)
    /\ req[p].quantity = 5 /\ sweets0[SeedSweetId].quantity = 10
    /\ result[p].value.quantity = 15
    /\ Done(q) /\ Called(q, "restockSweet") /\ req[q].quantity = 0
    /\ result[q].outcome = InvalidRestock /\ calls[q] = {}

\* C5: when every request is a restock of the same existing Sweet with a
\* positive amount, then once all have returned the stored quantity is the
\* initial quantity plus the sum of the amounts, and every call succeeded.
C5_ConcurrentRestocks ==
  ( \A p \in Procs :
      /\ Done(p) /\ Called(p, "restockSweet")
      /\ req[p].id = SeedSweetId /\ req[p].quantity > 0 )
  => /\ \A p \in Procs : Succeeded(p)
     /\ sweets[SeedSweetId].quantity =
          sweets0[SeedSweetId].quantity + SumQuantity(Procs)

C5_Witness ==
  /\ \A p \in Procs : Done(p) /\ Called(p, "restockSweet") /\ req[p].id = SeedSweetId
  /\ {req[p].quantity : p \in Procs} = {5, 7}
  /\ sweets0[SeedSweetId].quantity = 10
  /\ sweets[SeedSweetId].quantity = 22

\* C6: a purchase or a restock, whatever it interleaves with, succeeds or
\* fails with 'Sweet not found', 'Sweet is out of stock' or 'Restock
\* quantity must be a positive number'; it fails with 'Sweet not found'
\* when the Sweet is gone at its quantity update.
C6_NamedErrorKinds ==
  \A p \in Procs :
    ( Done(p) /\ (Called(p, "purchaseSweet") \/ Called(p, "restockSweet")) )
    => result[p].outcome \in {"ok", SweetNotFound, OutOfStock, InvalidRestock}

\* C7: when every request is a delete of the same existing Sweet, exactly
\* one succeeds and every other one fails with 'Sweet not found'; and a
\* delete whose existence check found no Sweet never invokes the store's
\* delete.
C7_DeleteOnce ==
  /\ \A p \in Procs :
       ( Called(p, "deleteSweet") /\ ~local[p].exists ) => "delete" \notin calls[p]
  /\ ( \A p \in Procs :
         Done(p) /\ Called(p, "deleteSweet") /\ req[p].id = SeedSweetId )
     => /\ Cardinality({p \in Procs : Succeeded(p)}) = 1
        /\ \A p \in Procs : ~Succeeded(p) => result[p].outcome = SweetNotFound

(***************************************************************************)
(* Credential Store (UserRepository).  The table has a unique index on     *)
(* email; strings are compared character by character.                     *)
(***************************************************************************)
\* Error Prisma raises from create when the unique index rejects the row (P2002).
UniqueConstraint == "P2002: Unique constraint failed on the fields: (email)"

EmailInUse(store, email) == \E id \in DOMAIN store : store[id].email = email

\* Variant: the row inserted without the unique index on email.
UserRepository_create_noIndex(store, id, data) ==
  LET row == [id |-> id, email |-> data.email, passwordHash |-> data.passwordHash,
              role |-> IF data.role # "" THEN data.role ELSE "user"]
  IN  StoreOk((id :> row) @@ store, row)

UserRepository_create(store, id, data) ==
  IF EmailInUse(store, data.email)
  THEN StoreError(store, UniqueConstraint)
  ELSE LET row == [id |-> id, email |-> data.email,
                   passwordHash |-> data.passwordHash,
                   role |-> IF data.role # "" THEN data.role ELSE "user"]
       IN  StoreOk((id :> row) @@ store, row)

UserRepository_findByEmail(store, email) ==
  IF EmailInUse(store, email)
  THEN store[CHOOSE id \in DOMAIN store : store[id].email = email]
  ELSE NoValue

(***************************************************************************)
(* PasswordService and TokenService.  A bcrypt hash carries its cost       *)
(* factor and its salt; comparing recomputes the digest with that salt.    *)
(* A token is its payload, readable by anyone, and a signature computed    *)
(* from the payload and the secret; anything else is a malformed token.    *)
(***************************************************************************)
SALT_ROUNDS == 10
Salts == {"salt1", "salt2"}

PasswordService_hashPassword(password, salt) ==
  [cost |-> SALT_ROUNDS, salt |-> salt, digest |-> <<salt, password>>]

\* Variant: the password hashed again and the two hashes compared.
PasswordService_comparePassword_rehash(password, hash) ==
  hash = PasswordService_hashPassword(password, "salt1")

PasswordService_comparePassword(password, hash) ==
  hash.digest = <<hash.salt, password>>

JWT_SECRET == "jwt-secret"
JWT_EXPIRATION == "24h"
SecretNotDefined == "JWT_SECRET is not defined in environment variables"

InvalidToken == "Invalid token"
TokenExpired == "Token has expired"

\* The time span an expiresIn text stands for, in whole hours.
ms(text) == CASE text = "24h" -> 24 [] text = "1ms" -> 0

\* HMAC of the payload under the secret.
Sign(payload, secret) == <<secret, payload>>

\* jwt.sign(payload, secret, {expiresIn}) at time t: iat and exp are added.
jwt_sign(payload, secret, expiresIn, t) ==
  LET claims == [userId |-> payload.userId, role |-> payload.role,
                 iat |-> t, exp |-> t + ms(expiresIn)]
  IN  [payload |-> claims, signature |-> Sign(claims, secret)]

\* Variant: every token issued with the role 'user'.
TokenService_generateToken_roleUser(userId, role, t) ==
  jwt_sign([userId |-> userId, role |-> "user"], JWT_SECRET, JWT_EXPIRATION, t)

TokenService_generateToken(userId, role, t) ==
  jwt_sign([userId |-> userId, role |-> role], JWT_SECRET, JWT_EXPIRATION, t)

\* Variant: jwt.verify told to ignore the expiry.
TokenService_verifyToken_ignoreExpiration(token, t) ==
  IF JWT_SECRET = "" THEN Failure(SecretNotDefined)
  ELSE IF "signature" \notin DOMAIN token THEN Failure(InvalidToken)
  ELSE IF token.signature # Sign(token.payload, JWT_SECRET) THEN Failure(InvalidToken)
  ELSE Success(token.payload)

\* TokenService.verifyToken at time t: jwt.verify checks the shape, then the
\* signature, then the expiry (expired from exp on); the errors are renamed.
TokenService_verifyToken(token, t) ==
  IF JWT_SECRET = "" THEN Failure(SecretNotDefined)
  ELSE IF "signature" \notin DOMAIN token THEN Failure(InvalidToken)
  ELSE IF token.signature # Sign(token.payload, JWT_SECRET) THEN Failure(InvalidToken)
  ELSE IF t >= token.payload.exp THEN Failure(TokenExpired)
  ELSE Success(token.payload)

(***************************************************************************)
(* Auth Service.  Emails and passwords are sequences of characters.        *)
(***************************************************************************)
InvalidEmail == "Invalid email format"
WeakPassword == "Password must be at least 8 characters long"
EmailTaken == "Email already registered"
InvalidCredentials == "Invalid credentials"
MinPasswordLength == 8

\* /^[^\s@]+@[^\s@]+\.[^\s@]+$/
isValidEmail(email) ==
  \E i, j \in 1 .. Len(email) :
    /\ email[i] = "@"
    /\ email[j] = "."
    /\ 1 < i /\ i + 1 < j /\ j < Len(email)
    /\ \A k \in (1 .. Len(email)) \ {i} : email[k] \notin {" ", "@"}

\* Variant: a password of exactly the minimum length rejected.
registerUserCheck_le(email, password) ==
  IF ~isValidEmail(email) THEN InvalidEmail
  ELSE IF Len(password) <= MinPasswordLength THEN WeakPassword
  ELSE ""

registerUserCheck(email, password) ==
  IF ~isValidEmail(email) THEN InvalidEmail
  ELSE IF Len(password) < MinPasswordLength THEN WeakPassword
  ELSE ""

registerUserExistingCheck(existingUser) ==
  IF existingUser # NoValue THEN EmailTaken ELSE ""

\* Variant: the new user created as an admin.
registerUserData_admin(email, passwordHash) ==
  [email |-> email, passwordHash |-> passwordHash, role |-> "admin"]

\* What registerUser hands to UserRepository.create.
registerUserData(email, passwordHash) ==
  [email |-> email, passwordHash |-> passwordHash, role |-> "user"]

\* Variant: an unregistered email reported as such.
loginUserResult_userNotFound(user, password, t) ==
  IF user = NoValue THEN Failure("User not found")
  ELSE IF ~PasswordService_comparePassword(password, user.passwordHash)
  THEN Failure(InvalidCredentials)
  ELSE IF JWT_SECRET = "" THEN Failure(SecretNotDefined)
  ELSE Success([token |-> TokenService_generateToken(user.id, user.role, t),
                user |-> [id |-> user.id, email |-> user.email, role |-> user.role]])

\* AuthService.loginUser from the row findByEmail returned.
loginUserResult(user, password, t) ==
  IF user = NoValue THEN Failure(InvalidCredentials)
  ELSE IF ~PasswordService_comparePassword(password, user.passwordHash)
  THEN Failure(InvalidCredentials)
  ELSE IF JWT_SECRET = "" THEN Failure(SecretNotDefined)
  ELSE Success([token |-> TokenService_generateToken(user.id, user.role, t),
                user |-> [id |-> user.id, email |-> user.email, role |-> user.role]])

(***************************************************************************)
(* AuthController.login: the request body is parsed by loginSchema, the    *)
(* service result or error is mapped to a status and a body.               *)
(***************************************************************************)
Letters == {"a", "b", "c", "d", "o", "p", "r", "s", "w", "A", "P"}
Digits == {"1"}
AlphaNum == Letters \cup Digits

\* zod's z.string().email():
\* /^(?!\.)(?!.*\.\.)([A-Z0-9_'+\-\.]*)[A-Z0-9_+-]@([A-Z0-9][A-Z0-9\-]*\.)+[A-Z]{2,}$/i
zodEmail(email) ==
  \E i, j \in 1 .. Len(email) :
    /\ email[i] = "@"
    /\ email[j] = "."
    /\ 1 < i /\ i + 1 < j /\ j + 2 <= Len(email)
    /\ email[1] # "."
    /\ \A k \in 1 .. Len(email) - 1 : ~(email[k] = "." /\ email[k + 1] = ".")
    /\ \A k \in 1 .. i - 1 : email[k] \in AlphaNum \cup {"_", "'", "+", "-", "."}
    /\ email[i - 1] \in AlphaNum \cup {"_", "+", "-"}
    /\ email[i + 1] \in AlphaNum
    /\ \A k \in i + 1 .. j : email[k] \in AlphaNum \cup {"-", "."}
    /\ \A k \in i + 1 .. j - 1 : email[k] = "." => email[k + 1] \in AlphaNum
    /\ \A k \in j + 1 .. Len(email) : email[k] \in Letters

loginSchema(email, password) == zodEmail(email) /\ Len(password) >= 1

ValidationFailed ==
  [status |-> 400, message |-> "Validation failed", code |-> "VALIDATION_ERROR"]
Unauthorized ==
  [status |-> 401, message |-> "Invalid credentials", code |-> "UNAUTHORIZED"]
InternalError ==
  [status |-> 500, message |-> "Internal server error", code |-> "INTERNAL_ERROR"]

AuthController_loginResponse(r) ==
  IF r.outcome = "ok"
  THEN [status |-> 200, message |-> "Login successful",
        token |-> r.value.token, user |-> r.value.user]
  ELSE IF r.outcome = InvalidCredentials THEN Unauthorized
  ELSE InternalError

(***************************************************************************)
(* Request inputs and steps of the auth requests.                          *)
(***************************************************************************)
EmailLower == <<"a", "@", "b", ".", "c", "o">>
EmailUpper == <<"A", "@", "b", ".", "c", "o">>
EmailNoDot == <<"a", "@", "b">>
Emails == {EmailLower, EmailUpper, EmailNoDot}

PasswordOne == <<"p", "a", "s", "s", "w", "o", "r", "d">>
PasswordTwo == <<"P", "a", "s", "s", "w", "o", "r", "d">>
PasswordShort == <<"p", "a", "s", "s", "w", "o", "r">>
Passwords == {PasswordOne, PasswordTwo, PasswordShort}
LoginPasswords == Passwords \cup {<< >>}

UnchangedSweets == UNCHANGED <<sweets, nextSweetId, sweets0, now, http>>

\* AuthService.registerUser up to its create: the checks of the email and
\* the password, made before any store call, then findByEmail.
AuthService_registerUser_findByEmail(p) ==
  \E email \in Emails, password \in Passwords :
    LET invalid == registerUserCheck(email, password)
        existingUser == UserRepository_findByEmail(users, email)
    IN  /\ pc[p] = "idle"
        /\ req' = [req EXCEPT ![p] =
                     [op |-> "registerUser", email |-> email, password |-> password]]
        /\ IF invalid # ""
           THEN /\ Finish(p, Failure(invalid))
                /\ UNCHANGED <<local, calls>>
           ELSE /\ local' = [local EXCEPT ![p] = existingUser]
                /\ Invoke(p, "findByEmail")
                /\ Proceed(p, registerUserExistingCheck(existingUser), "create")
        /\ UNCHANGED <<users, nextUserId, response>>
        /\ UnchangedSweets

\* hashPassword, which draws the salt, then UserRepository.create.
AuthService_registerUser_create(p) ==
  \E salt \in Salts :
    LET passwordHash == PasswordService_hashPassword(req[p].password, salt)
        r == UserRepository_create(users, nextUserId,
               registerUserData(req[p].email, passwordHash))
    IN  /\ pc[p] = "create"
        /\ users' = r.store
        /\ nextUserId' = IF r.error = "" THEN nextUserId + 1 ELSE nextUserId
        /\ Invoke(p, "create")
        /\ Finish(p, Settle(r))
        /\ UNCHANGED <<req, local, response>>
        /\ UnchangedSweets

\* AuthService.loginUser, called directly.
AuthService_loginUser_with(p, email, password) ==
  LET user == UserRepository_findByEmail(users, email)
  IN  /\ pc[p] = "idle"
      /\ req' = [req EXCEPT ![p] =
                   [op |-> "loginUser", email |-> email, password |-> password]]
      /\ local' = [local EXCEPT ![p] = user]
      /\ Invoke(p, "findByEmail")
      /\ Finish(p, loginUserResult(user, password, now))
      /\ UNCHANGED <<users, nextUserId, response>>
      /\ UnchangedSweets

AuthService_loginUser(p) ==
  \E email \in Emails, password \in LoginPasswords :
    AuthService_loginUser_with(p, email, password)

\* AuthController.login: POST /api/auth/login.
AuthController_login(p) ==
  \E email \in Emails, password \in LoginPasswords :
    LET user == UserRepository_findByEmail(users, email)
        r == loginUserResult(user, password, now)
    IN  /\ pc[p] = "idle"
        /\ req' = [req EXCEPT ![p] =
                     [op |-> "login", email |-> email, password |-> password]]
        /\ IF ~loginSchema(email, password)
           THEN /\ response' = [response EXCEPT ![p] = ValidationFailed]
                /\ pc' = [pc EXCEPT ![p] = "done"]
                /\ UNCHANGED <<local, calls, result>>
           ELSE /\ local' = [local EXCEPT ![p] = user]
                /\ Invoke(p, "findByEmail")
                /\ Finish(p, r)
                /\ response' = [response EXCEPT ![p] = AuthController_loginResponse(r)]
        /\ UNCHANGED <<users, nextUserId>>
        /\ UnchangedSweets

(***************************************************************************)
(* Specification of the auth requests.  The users table starts empty or    *)
(* with one user registered earlier.                                       *)
(***************************************************************************)
RegisteredUser ==
  [id |-> 1, email |-> EmailLower,
   passwordHash |-> PasswordService_hashPassword(PasswordOne, "salt1"),
   role |-> "user"]

InitAuth ==
  /\ sweets = (SeedSweetId :> SeedSweet(1))
  /\ sweets0 = sweets
  /\ nextSweetId = SeedSweetId + 1
  /\ \/ users = << >> /\ nextUserId = 1
     \/ users = (1 :> RegisteredUser) /\ nextUserId = 2
  /\ pc = [p \in Procs |-> "idle"]
  /\ req = [p \in Procs |-> NoRequest]
  /\ local = [p \in Procs |-> NoValue]
  /\ result = [p \in Procs |-> Pending]
  /\ response = [p \in Procs |-> NoResponse]
  /\ calls = [p \in Procs |-> {}]
  /\ now = 0
  /\ http = [p \in Procs |-> NoHttp]

AuthStep(p) ==
  \/ AuthService_registerUser_findByEmail(p)
  \/ AuthService_registerUser_create(p)
  \/ AuthService_loginUser(p)
  \/ AuthController_login(p)

NextAuth == \E p \in Procs : AuthStep(p)

SpecAuth == InitAuth /\ [][NextAuth]_vars

(***************************************************************************)
(* Claims about registration and login.                                    *)
(***************************************************************************)
ValidRegistration(p) ==
  /\ Called(p, "registerUser")
  /\ isValidEmail(req[p].email)
  /\ Len(req[p].password) >= MinPasswordLength

\* C8: a register call with a valid email and password that does not return
\* a User fails with 'Email already registered'; of two register calls with
\* the same email at most one returns a User, and when both looked the email
\* up before either stored it, exactly one returns a User and the other
\* fails with 'Email already registered'.
C8_RegisterEmailTaken ==
  /\ \A p \in Procs :
       ( Done(p) /\ ValidRegistration(p) /\ ~Succeeded(p) )
       => result[p].outcome = EmailTaken
  /\ \A p, q \in Procs :
       ( /\ p # q /\ Done(p) /\ Done(q)
         /\ ValidRegistration(p) /\ ValidRegistration(q)
         /\ req[p].email = req[q].email )
       => /\ ~(Succeeded(p) /\ Succeeded(q))
          /\ ( local[p] = NoValue /\ local[q] = NoValue )
             => (Succeeded(p) \/ Succeeded(q))

\* C9: no two stored users have the same email, compared exactly; and a
\* store create for an email already present fails and leaves the table as
\* it was.
C9_UniqueEmail ==
  /\ [](\A i, j \in DOMAIN users : i # j => users[i].email # users[j].email)
  /\ [][\A p \in Procs :
          ( /\ pc[p] = "create" /\ pc'[p] = "done"
            /\ EmailInUse(users, req[p].email) )
          => /\ users' = users
             /\ result'[p] = Failure(UniqueConstraint)
       ]_vars

C9_Witness ==
  /\ \E i, j \in DOMAIN users :
       users[i].email = EmailLower /\ users[j].email = EmailUpper
  /\ \E p \in Procs :
       /\ Done(p) /\ Called(p, "registerUser") /\ "create" \in calls[p]
       /\ result[p].outcome = UniqueConstraint
       /\ Cardinality({i \in DOMAIN users : users[i].email = req[p].email}) = 1

\* C10: any two login attempts that the service rejected, one for an email
\* with no user and one for a wrong password, end with the same error
\* ('Invalid credentials') and, through the controller, with the same
\* response (401, 'Invalid credentials', UNAUTHORIZED).
LoginRejected(p) ==
  /\ Done(p)
  /\ Called(p, "loginUser") \/ Called(p, "login")
  /\ result[p].outcome \notin {"ok", "pending"}

C10_UniformLoginFailure ==
  \A p, q \in Procs :
    ( LoginRejected(p) /\ LoginRejected(q) )
    => /\ result[p] = result[q]
       /\ result[p] = Failure(InvalidCredentials)
       /\ ( Called(p, "login") /\ Called(q, "login") )
          => /\ response[p] = response[q]
             /\ response[p] = Unauthorized

C10_Witness ==
  \E p, q \in Procs :
    /\ LoginRejected(p) /\ Called(p, "login") /\ local[p] = NoValue
    /\ LoginRejected(q) /\ Called(q, "login") /\ local[q] # NoValue
    /\ req[p].password = req[q].password
    /\ response[p] = Unauthorized /\ response[q] = Unauthorized

\* C11: a register call with a well-formed email and a password shorter
\* than 8 characters fails with 'Password must be at least 8 characters
\* long', makes no store call and leaves the users table as it was; with a
\* password of exactly 8 characters it is not rejected and goes on to look
\* the email up.
C11_WeakPassword ==
  [][\A p \in Procs :
       ( /\ pc[p] = "idle"
         /\ req'[p].op = "registerUser"
         /\ isValidEmail(req'[p].email) )
       => /\ Len(req'[p].password) < 8
             => /\ pc'[p] = "done"
                /\ result'[p] = Failure(WeakPassword)
                /\ calls'[p] = {}
                /\ users' = users /\ nextUserId' = nextUserId
          /\ Len(req'[p].password) = 8
             => /\ result'[p].outcome # WeakPassword
                /\ calls'[p] = {"findByEmail"}
    ]_vars

C11_Witness ==
  \E p, q \in Procs :
    /\ Done(p) /\ Called(p, "registerUser") /\ isValidEmail(req[p].email)
    /\ Len(req[p].password) = 7 /\ result[p] = Failure(WeakPassword)
    /\ Done(q) /\ Called(q, "registerUser") /\ req[q].email = req[p].email
    /\ Len(req[q].password) = 8 /\ Succeeded(q)
    /\ \E id \in DOMAIN users : users[id].email = req[q].email

\* C12: after a successful register(email, password), findByEmail(email)
\* returns a user with the id register returned and the role 'user', and a
\* login with the same email and password made afterwards succeeds and
\* returns that same user id.
C12_RegisterThenLogin ==
  /\ [](\A p \in Procs :
          ( Done(p) /\ Called(p, "registerUser") /\ Succeeded(p) )
          => LET u == UserRepository_findByEmail(users, req[p].email)
             IN  /\ u # NoValue
                 /\ u.id = result[p].value.id
                 /\ u.role = "user")
  /\ [][\A p, q \in Procs :
          ( /\ Done(p) /\ Called(p, "registerUser") /\ Succeeded(p)
            /\ pc[q] = "idle" /\ req'[q].op = "loginUser"
            /\ req'[q].email = req[p].email
            /\ req'[q].password = req[p].password )
          => /\ result'[q].outcome = "ok"
             /\ result'[q].value.user.id = result[p].value.id
       ]_vars

C12_Witness ==
  \E p, q \in Procs :
    /\ Done(p) /\ Called(p, "registerUser") /\ Succeeded(p)
    /\ result[p].value.passwordHash.salt = "salt2"
    /\ Done(q) /\ Called(q, "loginUser") /\ Succeeded(q)
    /\ req[q].email = req[p].email /\ req[q].password = req[p].password
    /\ result[q].value.user.id = result[p].value.id

\* C17: through register and login alone, every stored user has the role
\* 'user' and every token a login returned carries the role 'user'; no
\* stored user's role is ever anything else.
C17_OnlyUserRole ==
  /\ \A id \in DOMAIN users : users[id].role = "user"
  /\ \A p \in Procs :
       ( Done(p) /\ (Called(p, "loginUser") \/ Called(p, "login")) /\ Succeeded(p) )
       => /\ result[p].value.token.payload.role = "user"
          /\ result[p].value.user.role = "user"

C17_Witness ==
  \E p, q \in Procs :
    /\ Done(p) /\ Called(p, "registerUser") /\ Succeeded(p)
    /\ users[result[p].value.id].role = "user"
    /\ Done(q) /\ Called(q, "login") /\ Succeeded(q)
    /\ result[q].value.user.id = result[p].value.id
    /\ result[q].value.token.payload.role = "user"

(***************************************************************************)
(* Claims about the prices in the catalog.                                 *)
(***************************************************************************)
NonPositivePriceCreate(p) ==
  /\ pc[p] = "idle"
  /\ req'[p].op = "createSweet"
  /\ req'[p].data.price <= 0

NonPositivePriceUpdate(p) ==
  /\ pc[p] = "idle"
  /\ req'[p].op = "updateSweet"
  /\ "price" \in DOMAIN req'[p].data
  /\ req'[p].data.price <= 0

RejectedWithoutWrite(p, message) ==
  /\ pc'[p] = "done"
  /\ result'[p] = Failure(message)
  /\ calls'[p] \cap {"create", "update"} = {}
  /\ sweets' = sweets

\* C18: every stored sweet has a price above 0; a createSweet with a price
\* of 0 or less, and an updateSweet that supplies a price of 0 or less, fail
\* with 'Price must be a positive number' before any store write and leave
\* the catalog as it was.
C18_PositivePrice ==
  /\ [](\A id \in DOMAIN sweets : sweets[id].price > 0)
  /\ [][\A p \in Procs :
          ( NonPositivePriceCreate(p) \/ NonPositivePriceUpdate(p) )
          => RejectedWithoutWrite(p, InvalidPrice)
       ]_vars

\* C18, amended: every stored sweet has a price above 0; a createSweet with
\* a price of 0 or less fails with 'Price must be a positive number', and an
\* updateSweet that supplies a price of 0 or less fails with that error when
\* the id exists and with 'Sweet not found' when it does not; all of them
\* before any store write, leaving the catalog as it was.
C18_PositivePriceOfExisting ==
  /\ [](\A id \in DOMAIN sweets : sweets[id].price > 0)
  /\ [][\A p \in Procs :
          /\ NonPositivePriceCreate(p)
             => RejectedWithoutWrite(p, InvalidPrice)
          /\ NonPositivePriceUpdate(p)
             => RejectedWithoutWrite(p,
                  IF req'[p].id \in DOMAIN sweets THEN InvalidPrice
                  ELSE SweetNotFound)
       ]_vars

C18_Witness ==
  \E p, q \in Procs :
    /\ Done(p) /\ Called(p, "createSweet") /\ req[p].data.price = 0
    /\ result[p] = Failure(InvalidPrice)
    /\ Done(q) /\ Called(q, "updateSweet") /\ req[q].id \in DOMAIN sweets
    /\ "price" \in DOMAIN req[q].data /\ req[q].data.price = 0
    /\ result[q] = Failure(InvalidPrice)
    /\ sweets = sweets0

(***************************************************************************)
(* Specification of the token checks.  Time passes between requests; a     *)
(* request logs in, or has a token verified: one issued to a user at an    *)
(* earlier time, or one derived from it without the secret.                *)
(***************************************************************************)
\* Hours at which tokens are issued and verified.
TimePoints == {0, 1, 24}

SeededAdmin ==
  [id |-> 2, email |-> EmailUpper,
   passwordHash |-> PasswordService_hashPassword(PasswordTwo, "salt2"),
   role |-> "admin"]

TokenHolders == {[userId |-> 1, role |-> "user"], [userId |-> 2, role |-> "admin"]}

OtherSecret == "other-secret"
MalformedToken == [text |-> "invalid.token.here"]
TokenKinds == {"issued", "forged", "tampered", "malformed"}

\* The token a client presents: the one generateToken issued at iat, one
\* signed with another secret, the issued one with its expiry pushed back
\* and the old signature, or a text that is no token.
PresentedToken(kind, holder, iat) ==
  LET issued == TokenService_generateToken(holder.userId, holder.role, iat)
  IN  CASE kind = "issued" -> issued
        [] kind = "forged" -> jwt_sign(holder, OtherSecret, JWT_EXPIRATION, iat)
        [] kind = "tampered" ->
             [payload |-> [issued.payload EXCEPT !.exp = @ + 24],
              signature |-> issued.signature]
        [] kind = "malformed" -> MalformedToken

TokenService_verifyToken_call(p) ==
  \E kind \in TokenKinds, holder \in TokenHolders, iat \in TimePoints :
    LET token == PresentedToken(kind, holder, iat)
    IN  /\ pc[p] = "idle"
        /\ iat <= now
        /\ req' = [req EXCEPT ![p] =
                     [op |-> "verifyToken", kind |-> kind, userId |-> holder.userId,
                      role |-> holder.role, iat |-> iat, token |-> token, at |-> now]]
        /\ Finish(p, TokenService_verifyToken(token, now))
        /\ UNCHANGED <<users, nextUserId, response, local, calls>>
        /\ UnchangedSweets

Tick ==
  /\ \E t \in TimePoints : t > now /\ now' = t
  /\ UNCHANGED <<sweets, nextSweetId, users, nextUserId, pc, req, local, result,
                 response, calls, sweets0, http>>

InitToken ==
  /\ sweets = (SeedSweetId :> SeedSweet(1))
  /\ sweets0 = sweets
  /\ nextSweetId = SeedSweetId + 1
  /\ users = (1 :> RegisteredUser) @@ (2 :> SeededAdmin)
  /\ nextUserId = 3
  /\ pc = [p \in Procs |-> "idle"]
  /\ req = [p \in Procs |-> NoRequest]
  /\ local = [p \in Procs |-> NoValue]
  /\ result = [p \in Procs |-> Pending]
  /\ response = [p \in Procs |-> NoResponse]
  /\ calls = [p \in Procs |-> {}]
  /\ now = 0
  /\ http = [p \in Procs |-> NoHttp]

TokenStep(p) ==
  \/ TokenService_verifyToken_call(p)
  \/ AuthService_loginUser(p)

NextToken == Tick \/ \E p \in Procs : TokenStep(p)

SpecToken == InitToken /\ [][NextToken]_vars

(***************************************************************************)
(* Claims about tokens.                                                    *)
(***************************************************************************)
Verified(p) == Done(p) /\ Called(p, "verifyToken")

LoggedIn(p) == Done(p) /\ Called(p, "loginUser") /\ Succeeded(p)

C16_VerifyRejects ==
  /\ \A p \in Procs :
       Verified(p)
       => /\ req[p].kind \in {"forged", "tampered", "malformed"}
             => result[p] = Failure(InvalidToken)
          /\ ( req[p].kind = "issued" /\ req[p].at >= req[p].iat + 24 )
             => result[p] = Failure(TokenExpired)
          /\ Succeeded(p)
             => /\ req[p].kind = "issued"
                /\ req[p].at < req[p].iat + 24
                /\ now >= req[p].iat + 24
                   => TokenService_verifyToken(req[p].token, now)
                        = Failure(TokenExpired)
  /\ \A p, q \in Procs :
       ( /\ Verified(p) /\ Succeeded(p) /\ Verified(q)
         /\ req[q].token = req[p].token
         /\ req[q].at >= req[p].iat + 24 )
       => result[q] = Failure(TokenExpired)

C16_Witness ==
  \E p, q \in Procs :
    /\ Verified(p) /\ Succeeded(p) /\ req[p].at = 1
    /\ Verified(q) /\ req[q].token = req[p].token /\ req[q].at = 24
    /\ result[q] = Failure(TokenExpired)

(***************************************************************************)
(* The middleware of the catalog and inventory routes.  The Authorization  *)
(* header is a sequence of parts: the text 'Bearer ' and a token, so that  *)
(* '' is the empty sequence; a request without the header has no           *)
(* authorization field.                                                    *)
(***************************************************************************)
BearerPrefix == [text |-> "Bearer "]

\* A middleware that sent nothing and called next().
PassedOn == [status |-> 0, message |-> "", code |-> "", next |-> 1]
Rejected(status, message, code) ==
  [status |-> status, message |-> message, code |-> code, next |-> 0]

\* The text after 'Bearer ', or the whole header, as the token jwt.verify gets.
tokenOf(parts) == IF Len(parts) = 1 THEN parts[1] ELSE MalformedToken

\* Variant: the first 7 characters dropped whatever the header starts with.
authenticate_substring(headers, t) ==
  LET authHeader == IF "authorization" \in DOMAIN headers
                    THEN headers.authorization ELSE << >>
      token == IF authHeader = << >> THEN << >> ELSE Tail(authHeader)
      decoded == TokenService_verifyToken(tokenOf(token), t)
  IN  IF authHeader = << >>
      THEN [user |-> NoValue,
            sent |-> Rejected(401, "No authorization token provided", "UNAUTHORIZED")]
      ELSE IF token = << >>
      THEN [user |-> NoValue,
            sent |-> Rejected(401, "Invalid authorization header format", "UNAUTHORIZED")]
      ELSE IF decoded.outcome # "ok"
      THEN [user |-> NoValue, sent |-> Rejected(401, decoded.outcome, "UNAUTHORIZED")]
      ELSE [user |-> [userId |-> decoded.value.userId, role |-> decoded.value.role],
            sent |-> PassedOn]

\* authenticate at time t: the user it attaches to the request and what it
\* sent.
authenticate(headers, t) ==
  LET authHeader == IF "authorization" \in DOMAIN headers
                    THEN headers.authorization ELSE << >>
      token == IF authHeader # << >> /\ Head(authHeader) = BearerPrefix
               THEN Tail(authHeader) ELSE authHeader
      decoded == TokenService_verifyToken(tokenOf(token), t)
  IN  IF authHeader = << >>
      THEN [user |-> NoValue,
            sent |-> Rejected(401, "No authorization token provided", "UNAUTHORIZED")]
      ELSE IF token = << >>
      THEN [user |-> NoValue,
            sent |-> Rejected(401, "Invalid authorization header format", "UNAUTHORIZED")]
      ELSE IF decoded.outcome # "ok"
      THEN [user |-> NoValue, sent |-> Rejected(401, decoded.outcome, "UNAUTHORIZED")]
      ELSE [user |-> [userId |-> decoded.value.userId, role |-> decoded.value.role],
            sent |-> PassedOn]

\* Variant: the role compared without regard to case.
requireAdmin_anyCase(user) ==
  IF user = NoValue THEN Rejected(401, "Authentication required", "UNAUTHORIZED")
  ELSE IF user.role \notin {"admin", "Admin", "ADMIN"}
  THEN Rejected(403, "Admin access required", "FORBIDDEN")
  ELSE PassedOn

requireAdmin(user) ==
  IF user = NoValue THEN Rejected(401, "Authentication required", "UNAUTHORIZED")
  ELSE IF user.role # "admin" THEN Rejected(403, "Admin access required", "FORBIDDEN")
  ELSE PassedOn

\* A middleware that was not reached.
NotRun == [status |-> 0, message |-> "", code |-> "", next |-> 0]

AdminRoutes ==
  {"POST /api/sweets", "PUT /api/sweets/:id", "DELETE /api/sweets/:id",
   "POST /api/sweets/:id/restock"}
Routes == AdminRoutes \cup {"POST /api/sweets/:id/purchase"}

\* The headers requests come with, at hour 24: none, '', 'Bearer ' alone,
\* and tokens issued at hour 0 (expired by now) or at hour 1.
AdminHolder == [userId |-> 2, role |-> "admin"]
UserHolder == [userId |-> 1, role |-> "user"]
CapsHolder == [userId |-> 3, role |-> "Admin"]

NoAuthorization == [accept |-> "application/json"]

RequestHeaders ==
  { NoAuthorization,
    [authorization |-> << >>],
    [authorization |-> <<BearerPrefix>>],
    [authorization |-> <<BearerPrefix, MalformedToken>>],
    [authorization |-> <<BearerPrefix, PresentedToken("forged", AdminHolder, 1)>>],
    [authorization |-> <<BearerPrefix, PresentedToken("issued", AdminHolder, 0)>>],
    [authorization |-> <<BearerPrefix, PresentedToken("issued", AdminHolder, 1)>>],
    [authorization |-> <<PresentedToken("issued", UserHolder, 1)>>],
    [authorization |-> <<BearerPrefix, PresentedToken("issued", CapsHolder, 1)>>] }

\* The middleware chain of a route, run when the request arrives: authenticate,
\* then requireAdmin on the admin routes.  A request they let through is
\* left for the handler of its route.
Router_handle_with(p, route, headers, params, body) ==
  LET a == authenticate(headers, now)
      g == IF a.sent.next = 1 /\ route \in AdminRoutes
           THEN requireAdmin(a.user) ELSE NotRun
      sent == IF a.sent.status # 0 THEN a.sent ELSE g
  IN  /\ pc[p] = "idle"
      /\ http[p] = NoHttp
      /\ http' = [http EXCEPT ![p] =
                    [route |-> route, headers |-> headers, params |-> params,
                     body |-> body, at |-> now,
                     user |-> a.user, authenticate |-> a.sent,
                     requireAdmin |-> g]]
      /\ IF sent.status # 0
         THEN /\ response' = [response EXCEPT ![p] =
                                [status |-> sent.status, message |-> sent.message,
                                 code |-> sent.code]]
              /\ pc' = [pc EXCEPT ![p] = "done"]
         ELSE UNCHANGED <<pc, response>>
      /\ UNCHANGED <<sweets, nextSweetId, users, nextUserId, req, local, result,
                     calls, sweets0, now>>

\* Requests whose path parameters and body play no part: the handlers
\* behind the middleware take their arguments from the request inputs.
Router_handle(p) ==
  \E route \in Routes, headers \in RequestHeaders :
    Router_handle_with(p, route, headers, NoValue, NoValue)

\* The request of p was let through to the handler of the route.
Admitted(p, route) == http[p].route = route

InitGate ==
  /\ sweets = (SeedSweetId :> SeedSweet(1))
  /\ sweets0 = sweets
  /\ nextSweetId = SeedSweetId + 1
  /\ users = (1 :> RegisteredUser) @@ (2 :> SeededAdmin)
  /\ nextUserId = 3
  /\ pc = [p \in Procs |-> "idle"]
  /\ req = [p \in Procs |-> NoRequest]
  /\ local = [p \in Procs |-> NoValue]
  /\ result = [p \in Procs |-> Pending]
  /\ response = [p \in Procs |-> NoResponse]
  /\ calls = [p \in Procs |-> {}]
  /\ now = 24
  /\ http = [p \in Procs |-> NoHttp]

GateStep(p) ==
  \/ Router_handle(p)
  \/ Admitted(p, "POST /api/sweets") /\ SweetService_createSweet(p)
  \/ Admitted(p, "PUT /api/sweets/:id") /\ SweetService_updateSweet_existsById(p)
  \/ SweetService_updateSweet_update(p)
  \/ Admitted(p, "DELETE /api/sweets/:id") /\ SweetService_deleteSweet_existsById(p)
  \/ SweetService_deleteSweet_delete(p)
  \/ Admitted(p, "POST /api/sweets/:id/purchase")
       /\ InventoryService_purchaseSweet_findById(p)
  \/ InventoryService_purchaseSweet_decrementQuantity(p)
  \/ Admitted(p, "POST /api/sweets/:id/restock")
       /\ InventoryService_restockSweet_existsById(p)
  \/ InventoryService_restockSweet_incrementQuantity(p)

NextGate == \E p \in Procs : GateStep(p)

SpecGate == InitGate /\ [][NextGate]_vars

(***************************************************************************)
(* Claims about the middleware.                                            *)
(***************************************************************************)
GateHolders == {AdminHolder, UserHolder, CapsHolder}

\* The holders of whom the headers carry, with or without 'Bearer ', a
\* token issued by generateToken and not yet expired at time t.
ValidHolders(headers, t) ==
  { holder \in GateHolders :
      \E iat \in {0, 1} :
        LET token == TokenService_generateToken(holder.userId, holder.role, iat)
        IN  /\ iat <= t /\ t < iat + 24
            /\ "authorization" \in DOMAIN headers
            /\ headers.authorization \in {<<token>>, <<BearerPrefix, token>>} }

ServiceInvoked(p) == req[p] # NoRequest \/ calls[p] # {} \/ result[p] # Pending

RouteOperation ==
  [route \in AdminRoutes |->
     CASE route = "POST /api/sweets" -> "createSweet"
       [] route = "PUT /api/sweets/:id" -> "updateSweet"
       [] route = "DELETE /api/sweets/:id" -> "deleteSweet"
       [] route = "POST /api/sweets/:id/restock" -> "restockSweet"]

\* C13: on the admin routes (POST /api/sweets, PUT and DELETE
\* /api/sweets/:id, POST /api/sweets/:id/restock) the service operation of
\* the route is invoked only for a request with a valid token whose role is
\* exactly 'admin'; a valid token with another role gets 403, a request
\* without a user gets 401, and in both cases the service is not called and
\* the request makes no store call.
C13_AdminGate ==
  /\ requireAdmin(NoValue) = Rejected(401, "Authentication required", "UNAUTHORIZED")
  /\ \A p \in Procs :
       http[p].route \in AdminRoutes
       => LET valid == ValidHolders(http[p].headers, http[p].at)
          IN  /\ ServiceInvoked(p)
                 => /\ \E holder \in valid : holder.role = "admin"
                    /\ http[p].user.role = "admin"
                    /\ req[p].op = RouteOperation[http[p].route]
              /\ ( \E holder \in valid : holder.role # "admin" )
                 => /\ Done(p) /\ ~ServiceInvoked(p)
                    /\ response[p] = [status |-> 403,
                                      message |-> "Admin access required",
                                      code |-> "FORBIDDEN"]
              /\ http[p].user = NoValue
                 => /\ Done(p) /\ ~ServiceInvoked(p)
                    /\ response[p].status = 401

C13_Witness ==
  \E p, q \in Procs :
    /\ http[p].route = "POST /api/sweets/:id/restock"
    /\ http[p].user = CapsHolder
    /\ response[p].status = 403 /\ ~ServiceInvoked(p)
    /\ http[q].route = "POST /api/sweets/:id/restock"
    /\ http[q].user = AdminHolder
    /\ Done(q) /\ Called(q, "restockSweet") /\ Succeeded(q)
    /\ sweets # sweets0

\* C14: authenticate answers 401, does not call next() and leaves req.user
\* unset, so that no service operation runs, when the Authorization header
\* is missing or empty, is 'Bearer ' with no token, or carries a token that
\* is malformed, wrongly signed or expired; for a valid token, with or
\* without 'Bearer ', it sets req.user to the token's userId and role and
\* calls next() once without sending a response.
C14_Authenticate ==
  \A p \in Procs :
    http[p] # NoHttp
    => LET valid == ValidHolders(http[p].headers, http[p].at)
       IN  IF valid = {}
           THEN /\ http[p].authenticate.status = 401
                /\ http[p].authenticate.code = "UNAUTHORIZED"
                /\ http[p].authenticate.next = 0
                /\ http[p].user = NoValue
                /\ response[p].status = 401
                /\ Done(p) /\ ~ServiceInvoked(p)
           ELSE /\ valid = {http[p].user}
                /\ http[p].authenticate = PassedOn

C14_Witness ==
  \E p, q \in Procs :
    /\ http[p] # NoHttp /\ http[q] # NoHttp
    /\ http[p].headers = [authorization |-> <<PresentedToken("issued", UserHolder, 1)>>]
    /\ http[p].user = UserHolder
    /\ Done(p) /\ Called(p, "purchaseSweet") /\ Succeeded(p)
    /\ http[q].headers =
         [authorization |-> <<BearerPrefix, PresentedToken("issued", AdminHolder, 0)>>]
    /\ response[q] = [status |-> 401, message |-> TokenExpired, code |-> "UNAUTHORIZED"]
    /\ ~ServiceInvoked(q)

(***************************************************************************)
(* Catalog Store queries: findAll and search.  Names are sequences of      *)
(* characters, so that the substring match is computed; search criteria    *)
(* are partial records: a criterion is given when it is in the domain.     *)
(***************************************************************************)
UpperCase == <<"A", "B", "C", "G", "H", "M", "O", "T", "U">>
LowerCase == <<"a", "b", "c", "g", "h", "m", "o", "t", "u">>

\* ASCII case folding, as SQLite's LIKE does it.
toLower(c) ==
  IF \E i \in DOMAIN UpperCase : UpperCase[i] = c
  THEN LowerCase[CHOOSE i \in DOMAIN UpperCase : UpperCase[i] = c]
  ELSE c

\* name LIKE '%' || part || '%'
contains(text, part) ==
  \E i \in 0 .. Len(text) - Len(part) :
    \A k \in 1 .. Len(part) : toLower(text[i + k]) = toLower(part[k])

\* orderBy: { createdAt: 'desc' }; rows created in the same millisecond come
\* in the order of the table scan, the order of insertion.
RECURSIVE orderByCreatedAtDesc(_, _)
orderByCreatedAtDesc(store, ids) ==
  IF ids = {} THEN << >>
  ELSE LET first == CHOOSE id \in ids :
                      \A other \in ids :
                        \/ store[id].createdAt > store[other].createdAt
                        \/ /\ store[id].createdAt = store[other].createdAt
                           /\ id <= other
       IN  <<store[first]>> \o orderByCreatedAtDesc(store, ids \ {first})

\* Variant: rows in the order of the table scan.
RECURSIVE orderById(_, _)
orderById(store, ids) ==
  IF ids = {} THEN << >>
  ELSE LET first == CHOOSE id \in ids : \A other \in ids : id <= other
       IN  <<store[first]>> \o orderById(store, ids \ {first})

SweetRepository_findAll(store) == orderByCreatedAtDesc(store, DOMAIN store)

\* Variant: the lower price bound exclusive (gt for gte).
SweetRepository_search_where_gt(criteria, row) ==
  /\ ( "name" \in DOMAIN criteria /\ criteria.name # << >> )
     => contains(row.name, criteria.name)
  /\ ( "category" \in DOMAIN criteria /\ criteria.category # "" )
     => row.category = criteria.category
  /\ "minPrice" \in DOMAIN criteria => row.price > criteria.minPrice
  /\ "maxPrice" \in DOMAIN criteria => row.price <= criteria.maxPrice

\* The where clause search builds: a name or category that is undefined or
\* '' adds no condition, a price bound adds one unless it is undefined.
SweetRepository_search_where(criteria, row) ==
  /\ ( "name" \in DOMAIN criteria /\ criteria.name # << >> )
     => contains(row.name, criteria.name)
  /\ ( "category" \in DOMAIN criteria /\ criteria.category # "" )
     => row.category = criteria.category
  /\ "minPrice" \in DOMAIN criteria => row.price >= criteria.minPrice
  /\ "maxPrice" \in DOMAIN criteria => row.price <= criteria.maxPrice

\* Variant: search without its orderBy.
SweetRepository_search_unordered(store, criteria) ==
  orderById(store,
    {id \in DOMAIN store : SweetRepository_search_where(criteria, store[id])})

SweetRepository_search(store, criteria) ==
  orderByCreatedAtDesc(store,
    {id \in DOMAIN store : SweetRepository_search_where(criteria, store[id])})

(***************************************************************************)
(* Specification of the catalog queries.  The catalog holds any of three   *)
(* sweets, created at three different times or the first two at the same   *)
(* time; every request is one searchSweets or one getAllSweets.            *)
(***************************************************************************)
SearchData ==
  <<[name |-> <<"C", "h", "o", "c">>, category |-> "bar",
     price |-> Decimal(2, 0), quantity |-> 5],
    [name |-> <<"h", "o", "t">>, category |-> "Bar",
     price |-> Decimal(3, 0), quantity |-> 0],
    [name |-> <<"g", "u", "m">>, category |-> "bar",
     price |-> Decimal(1, 0), quantity |-> 2]>>

CreationTimes == {<<1, 2, 3>>, <<1, 1, 2>>}

\* The row create stores for SearchData[id], with its createdAt.
SearchSweet(id, createdAt) ==
  LET row == SweetRepository_create(<< >>, id, SearchData[id]).value
  IN  [id |-> row.id, name |-> row.name, category |-> row.category,
       price |-> row.price, quantity |-> row.quantity, createdAt |-> createdAt]

SearchNames == {<< >>, <<"H", "O">>}
SearchCategories == {"", "bar"}
SearchPrices ==
  {<< >>, [minPrice |-> Decimal(2, 0)], [maxPrice |-> Decimal(2, 0)],
   [minPrice |-> Decimal(2, 0), maxPrice |-> Decimal(3, 0)]}

SearchCriteria ==
  { names @@ categories @@ prices :
      names \in {<< >>} \cup {[name |-> n] : n \in SearchNames},
      categories \in {<< >>} \cup {[category |-> c] : c \in SearchCategories},
      prices \in SearchPrices }

SweetService_searchSweets(p) ==
  \E criteria \in SearchCriteria :
    /\ pc[p] = "idle"
    /\ req' = [req EXCEPT ![p] = [op |-> "searchSweets", criteria |-> criteria]]
    /\ Invoke(p, "search")
    /\ Finish(p, Success(SweetRepository_search(sweets, criteria)))
    /\ UNCHANGED <<sweets, nextSweetId, local>>
    /\ UnchangedUsers

SweetService_getAllSweets(p) ==
  /\ pc[p] = "idle"
  /\ req' = [req EXCEPT ![p] = [op |-> "getAllSweets"]]
  /\ Invoke(p, "findAll")
  /\ Finish(p, Success(SweetRepository_findAll(sweets)))
  /\ UNCHANGED <<sweets, nextSweetId, local>>
  /\ UnchangedUsers

InitSearch ==
  /\ \E ids \in SUBSET DOMAIN SearchData, createdAt \in CreationTimes :
       sweets = [id \in ids |-> SearchSweet(id, createdAt[id])]
  /\ sweets0 = sweets
  /\ nextSweetId = Len(SearchData) + 1
  /\ users = << >>
  /\ nextUserId = 1
  /\ pc = [p \in Procs |-> "idle"]
  /\ req = [p \in Procs |-> NoRequest]
  /\ local = [p \in Procs |-> NoValue]
  /\ result = [p \in Procs |-> Pending]
  /\ response = [p \in Procs |-> NoResponse]
  /\ calls = [p \in Procs |-> {}]
  /\ now = 0
  /\ http = [p \in Procs |-> NoHttp]

SearchStep(p) ==
  \/ SweetService_searchSweets(p)
  \/ SweetService_getAllSweets(p)

NextSearch == \E p \in Procs : SearchStep(p)

SpecSearch == InitSearch /\ [][NextSearch]_vars

(***************************************************************************)
(* Claims about the catalog queries.                                       *)
(***************************************************************************)
Folded(text) == [k \in 1 .. Len(text) |-> toLower(text[k])]

ContainsIgnoringCase(text, part) ==
  \E i \in 1 .. Len(text) + 1 :
    /\ i + Len(part) - 1 <= Len(text)
    /\ Folded(SubSeq(text, i, i + Len(part) - 1)) = Folded(part)

Searched(p) == Done(p) /\ Called(p, "searchSweets")

Range(seq) == {seq[i] : i \in DOMAIN seq}

\* The row meets every criterion that is in the criteria.
SatisfiesSupplied(row, criteria) ==
  /\ "name" \in DOMAIN criteria => ContainsIgnoringCase(row.name, criteria.name)
  /\ "category" \in DOMAIN criteria => row.category = criteria.category
  /\ "minPrice" \in DOMAIN criteria => criteria.minPrice <= row.price
  /\ "maxPrice" \in DOMAIN criteria => row.price <= criteria.maxPrice

\* The row meets every criterion that is in the criteria, a name or a
\* category that is the empty text counting as not given.
SatisfiesNonEmpty(row, criteria) ==
  /\ ( "name" \in DOMAIN criteria /\ criteria.name # << >> )
     => ContainsIgnoringCase(row.name, criteria.name)
  /\ ( "category" \in DOMAIN criteria /\ criteria.category # "" )
     => row.category = criteria.category
  /\ "minPrice" \in DOMAIN criteria => criteria.minPrice <= row.price
  /\ "maxPrice" \in DOMAIN criteria => row.price <= criteria.maxPrice

C20_SearchAllIsGetAll ==
  \A p \in Procs :
    ( Searched(p) /\ DOMAIN req[p].criteria = {} )
    => /\ result[p].value = SweetRepository_findAll(sweets)
       /\ Range(result[p].value) = {sweets[id] : id \in DOMAIN sweets}
       /\ \A i, j \in DOMAIN result[p].value :
            i < j => result[p].value[i].createdAt >= result[p].value[j].createdAt
       /\ \A q \in Procs :
            ( Done(q) /\ Called(q, "getAllSweets") ) => result[q] = result[p]

C20_Witness ==
  \E p, q \in Procs :
    /\ Searched(p) /\ DOMAIN req[p].criteria = {}
    /\ Done(q) /\ Called(q, "getAllSweets")
    /\ Len(result[q].value) = 3
    /\ result[q].value[1].id = 3 /\ result[q].value[2].id = 1
    /\ result[q].value[2].createdAt = result[q].value[3].createdAt
    /\ result[p].value = result[q].value

(***************************************************************************)
(* Claims about the round trip through the catalog.                        *)
(***************************************************************************)
\* The fields createSweet takes when they are valid: a price above 0, whole
\* or not, and a whole quantity of 0 or more.
ValidFields(data) == data.price > 0 /\ data.quantity >= 0

\* C21: a createSweet with valid fields, the price whole or not, succeeds
\* with an id no Sweet had, and a getSweetById on that id then returns a
\* record with the name, category, price and quantity supplied.
C21_CreateThenGet ==
  [][ \A p \in Procs :
        ( pc[p] = "idle" /\ Called(p, "createSweet")' /\ ValidFields(req'[p].data) )
        => LET created == result'[p].value
               got == getSweetByIdResult(SweetRepository_findById(sweets', created.id))
           IN  /\ Succeeded(p)'
               /\ created.id \notin DOMAIN sweets
               /\ got.outcome = "ok"
               /\ got.value.name = req'[p].data.name
               /\ got.value.category = req'[p].data.category
               /\ got.value.price = req'[p].data.price
               /\ got.value.quantity = req'[p].data.quantity ]_vars

(***************************************************************************)
(* Claims about updateSweet.                                               *)
(***************************************************************************)
\* A partial update whose supplied price is above 0 and whose supplied
\* quantity is 0 or more.
ValidPartialFields(data) ==
  /\ "price" \in DOMAIN data => data.price > 0
  /\ "quantity" \in DOMAIN data => data.quantity >= 0

\* The step in which request p makes store call `method`.
StoreCall(p, method) == pc[p] = method /\ pc'[p] # method

\* C22: an updateSweet with a valid partial update, on a Sweet that exists,
\* sets exactly the supplied fields to the supplied values and leaves the
\* other fields, the id and every other Sweet as they were.
C22_UpdateSetsSupplied ==
  [][ \A p \in Procs :
        ( /\ StoreCall(p, "update")
          /\ ValidPartialFields(req[p].data)
          /\ req[p].id \in DOMAIN sweets )
        => /\ DOMAIN sweets' = DOMAIN sweets
           /\ \A id \in DOMAIN sweets \ {req[p].id} : sweets'[id] = sweets[id]
           /\ \A f \in DOMAIN sweets[req[p].id] :
                sweets'[req[p].id][f] =
                  IF f \in DOMAIN req[p].data THEN req[p].data[f]
                  ELSE sweets[req[p].id][f] ]_vars

\* The step in which the call of request p ends.
Returns(p) == pc[p] # "done" /\ pc'[p] = "done"

\* C23: every updateSweet that fails leaves the catalog as it was and has
\* not invoked the store's update; it fails with 'Sweet not found' when the
\* existence check found no Sweet, else with 'Price must be a positive
\* number' when a price of 0 or less is supplied, else with 'Quantity must
\* be a non-negative number' when a quantity below 0 is supplied; a
\* supplied quantity of 0 passes the checks.
C23_UpdateFailures ==
  [][ \A p \in Procs :
        /\ ( Returns(p) /\ Called(p, "updateSweet")' /\ ~Succeeded(p)' )
           => /\ sweets' = sweets
              /\ "update" \notin calls'[p]
              /\ result'[p].outcome =
                   IF ~local'[p].exists THEN SweetNotFound
                   ELSE IF "price" \in DOMAIN req'[p].data /\ req'[p].data.price <= 0
                        THEN InvalidPrice
                   ELSE InvalidQuantity
              /\ result'[p].outcome = InvalidQuantity
                 => "quantity" \in DOMAIN req'[p].data /\ req'[p].data.quantity < 0
        /\ ( /\ pc[p] = "idle" /\ Called(p, "updateSweet")'
             /\ local'[p].exists /\ req'[p].data = ("quantity" :> 0) )
           => pc'[p] = "update" ]_vars

(***************************************************************************)
(* Claims about a deleted Sweet.                                           *)
(***************************************************************************)
\* A deleteSweet(id) has succeeded.
Deleted(id) ==
  \E p \in Procs :
    Done(p) /\ Called(p, "deleteSweet") /\ Succeeded(p) /\ req[p].id = id

\* Request q starts a call of one of the operations on id.
Starts(q, operations, id) ==
  /\ pc[q] = "idle" /\ pc'[q] # "idle"
  /\ req'[q].op \in operations /\ req'[q].id = id

NotFoundAtOnce(q) == pc'[q] = "done" /\ result'[q] = Failure(SweetNotFound)

\* C24: once a deleteSweet(id) has succeeded, getSweetById(id) fails with
\* 'Sweet not found' from then on, whatever is created later, and every
\* purchaseSweet(id), restockSweet(id, n) and updateSweet(id, data) started
\* after it fails with 'Sweet not found'.
C24_DeletedStaysGone ==
  /\ [](\A id \in TargetIds :
         Deleted(id) =>
           getSweetByIdResult(SweetRepository_findById(sweets, id))
             = Failure(SweetNotFound))
  /\ [][ \A q \in Procs, id \in TargetIds :
          ( /\ Deleted(id)
            /\ Starts(q, {"getSweetById", "purchaseSweet", "restockSweet",
                          "updateSweet"}, id) )
          => NotFoundAtOnce(q) ]_vars

\* C24, amended: as C24, for the restockSweet(id, n) with n above 0; a
\* restockSweet(id, n) with n of 0 or less fails with 'Restock quantity
\* must be a positive number', deleted Sweet or not.
C24_DeletedStaysGoneForRestockAbove0 ==
  /\ [](\A id \in TargetIds :
         Deleted(id) =>
           getSweetByIdResult(SweetRepository_findById(sweets, id))
             = Failure(SweetNotFound))
  /\ [][ \A q \in Procs, id \in TargetIds :
          /\ ( /\ Deleted(id)
               /\ Starts(q, {"getSweetById", "purchaseSweet", "updateSweet"}, id) )
             => NotFoundAtOnce(q)
          /\ ( Deleted(id) /\ Starts(q, {"restockSweet"}, id) )
             => /\ pc'[q] = "done"
                /\ result'[q] = IF req'[q].quantity > 0
                                THEN Failure(SweetNotFound)
                                ELSE Failure(InvalidRestock) ]_vars

\* A restockSweet(1, n) with n above 0 failed with 'Sweet not found' after
\* a deleteSweet(1) succeeded.
C24_Witness ==
  /\ Deleted(SeedSweetId)
  /\ \E q \in Procs :
       /\ Done(q) /\ Called(q, "restockSweet") /\ req[q].id = SeedSweetId
       /\ req[q].quantity > 0 /\ result[q] = Failure(SweetNotFound)

(***************************************************************************)
(* Specification of the inventory requests alone: purchases and restocks,  *)
(* interleaved, with no updateSweet and no deleteSweet among them.         *)
(***************************************************************************)
InventoryStep(p) ==
  \/ InventoryService_purchaseSweet_findById(p)
  \/ InventoryService_purchaseSweet_decrementQuantity(p)
  \/ InventoryService_restockSweet_existsById(p)
  \/ InventoryService_restockSweet_incrementQuantity(p)

NextInventory == \E p \in Procs : InventoryStep(p)

SpecInventory == Init /\ [][NextInventory]_vars

\* The requests of one operation on the seeded Sweet that have succeeded.
SucceededOn(op) ==
  {p \in Procs : Called(p, op) /\ req[p].id = SeedSweetId /\ Succeeded(p)}

\* C27: however purchases and restocks of one Sweet interleave, its stored
\* quantity is the initial quantity, minus one for every purchase that has
\* succeeded, plus the amount of every restock that has succeeded.
C27_NoLostQuantityUpdate ==
  sweets[SeedSweetId].quantity =
    sweets0[SeedSweetId].quantity
      - Cardinality(SucceededOn("purchaseSweet"))
      + SumQuantity(SucceededOn("restockSweet"))

\* A purchase and a restock of 5 on the Sweet have both succeeded: from a
\* quantity of 1 the purchase wrote 0 and the restock wrote 5.
C27_Witness ==
  /\ sweets0[SeedSweetId].quantity = 1
  /\ sweets[SeedSweetId].quantity = 5
  /\ \E p, q \in Procs :
       /\ p \in SucceededOn("purchaseSweet")
       /\ q \in SucceededOn("restockSweet") /\ req[q].quantity = 5
       /\ result[p].value.quantity = 0
       /\ result[q].value.quantity = 5

\* C28: a purchase or a restock that succeeds changes the quantity of its
\* Sweet and nothing else: the Sweet's id, name, category and price, every
\* other Sweet and every User stay as they were; a purchase or a restock
\* that fails changes no Sweet and no User.
C28_QuantityOnly ==
  [][ \A p \in Procs :
        ( /\ Returns(p)
          /\ Called(p, "purchaseSweet")' \/ Called(p, "restockSweet")' )
        => /\ users' = users
           /\ ~Succeeded(p)' => sweets' = sweets
           /\ Succeeded(p)' =>
                /\ DOMAIN sweets' = DOMAIN sweets
                /\ \A id \in DOMAIN sweets \ {req'[p].id} : sweets'[id] = sweets[id]
                /\ \A f \in DOMAIN sweets[req'[p].id] \ {"quantity"} :
                     sweets'[req'[p].id][f] = sweets[req'[p].id][f]
                /\ sweets'[req'[p].id].quantity # sweets[req'[p].id].quantity ]_vars

\* A restock of 5 has succeeded on the seeded Sweet while the catalog held
\* a second Sweet, which still has the quantity it was created with.
C28_Witness ==
  \E p, q \in Procs :
    /\ p \in SucceededOn("restockSweet") /\ req[p].quantity = 5
    /\ Done(q) /\ Called(q, "createSweet") /\ Succeeded(q)
    /\ result[q].value.id # SeedSweetId
    /\ sweets[result[q].value.id].quantity = req[q].data.quantity
    /\ sweets[SeedSweetId].quantity = sweets0[SeedSweetId].quantity + 5

(***************************************************************************)
(* The HTTP boundary of the catalog and inventory routes: the request      *)
(* bodies, the zod schemas the controllers parse them with, and the        *)
(* controllers.  A body is a function from field names to values; a        *)
(* missing field is not in its domain, and its numbers are JavaScript      *)
(* numbers in the Decimal form.                                            *)
(***************************************************************************)
\* The whole number a JavaScript number without decimals stands for.
toQuantity(number) == number \div 100

\* createSweetSchema.parse(body) does not throw.
createSweetSchema(body) ==
  /\ "name" \in DOMAIN body /\ body.name # ""
  /\ "category" \in DOMAIN body /\ body.category # ""
  /\ "price" \in DOMAIN body /\ body.price > 0
  /\ "quantity" \in DOMAIN body /\ isInteger(body.quantity) /\ body.quantity >= 0

\* updateSweetSchema.parse(body) does not throw: every field is optional.
updateSweetSchema(body) ==
  /\ "name" \in DOMAIN body => body.name # ""
  /\ "category" \in DOMAIN body => body.category # ""
  /\ "price" \in DOMAIN body => body.price > 0
  /\ "quantity" \in DOMAIN body => isInteger(body.quantity) /\ body.quantity >= 0

\* Variant: a quantity of 0 let through (nonnegative for positive).
restockSchema_nonnegative(body) ==
  "quantity" \in DOMAIN body /\ isInteger(body.quantity) /\ body.quantity >= 0

\* restockSchema.parse(body) does not throw.
restockSchema(body) ==
  "quantity" \in DOMAIN body /\ isInteger(body.quantity) /\ body.quantity > 0

\* The validated data: the fields of the schema, the quantity a whole number.
validatedData(body) ==
  [f \in DOMAIN body |-> IF f = "quantity" THEN toQuantity(body[f]) ELSE body[f]]

\* The catch branches of the controllers: the response to what the service
\* call returned or threw.
InternalErrorOf(message) ==
  [status |-> 500, message |-> message, code |-> "INTERNAL_ERROR"]
NotFound == [status |-> 404, message |-> SweetNotFound, code |-> "NOT_FOUND"]
OutOfStockResponse == [status |-> 400, message |-> OutOfStock, code |-> "OUT_OF_STOCK"]

SweetController_createSweetResponse(r) ==
  IF r.outcome = "ok" THEN [status |-> 201, body |-> r.value]
  ELSE InternalErrorOf(r.outcome)

SweetController_updateSweetResponse(r) ==
  IF r.outcome = "ok" THEN [status |-> 200, body |-> r.value]
  ELSE IF r.outcome = SweetNotFound THEN NotFound
  ELSE InternalErrorOf(r.outcome)

SweetController_deleteSweetResponse(r) ==
  IF r.outcome = "ok" THEN [status |-> 204, body |-> NoValue]
  ELSE IF r.outcome = SweetNotFound THEN NotFound
  ELSE InternalErrorOf(r.outcome)

\* Variant: the out-of-stock branch left out.
InventoryController_purchaseSweetResponse_noOutOfStock(r) ==
  IF r.outcome = "ok" THEN [status |-> 200, body |-> r.value]
  ELSE IF r.outcome = SweetNotFound THEN NotFound
  ELSE InternalErrorOf(r.outcome)

InventoryController_purchaseSweetResponse(r) ==
  IF r.outcome = "ok" THEN [status |-> 200, body |-> r.value]
  ELSE IF r.outcome = SweetNotFound THEN NotFound
  ELSE IF r.outcome = OutOfStock THEN OutOfStockResponse
  ELSE InternalErrorOf(r.outcome)

InventoryController_restockSweetResponse(r) ==
  IF r.outcome = "ok" THEN [status |-> 200, body |-> r.value]
  ELSE IF r.outcome = SweetNotFound THEN NotFound
  ELSE InternalErrorOf(r.outcome)

\* The ZodError branch: 400, and the service is not called.
ZodRejected(p) ==
  /\ response' = [response EXCEPT ![p] = ValidationFailed]
  /\ pc' = [pc EXCEPT ![p] = "done"]
  /\ UNCHANGED <<sweets, nextSweetId, users, nextUserId, req, local, result,
                 calls, sweets0, now, http>>

\* The controllers up to the first store call of their service call.
SweetController_createSweet(p) ==
  /\ Admitted(p, "POST /api/sweets")
  /\ pc[p] = "idle"
  /\ IF createSweetSchema(http[p].body)
     THEN SweetService_createSweet_with(p, validatedData(http[p].body))
     ELSE ZodRejected(p)

SweetController_updateSweet(p) ==
  /\ Admitted(p, "PUT /api/sweets/:id")
  /\ pc[p] = "idle"
  /\ IF updateSweetSchema(http[p].body)
     THEN SweetService_updateSweet_existsById_with(p, http[p].params.id,
                                                  validatedData(http[p].body))
     ELSE ZodRejected(p)

SweetController_deleteSweet(p) ==
  /\ Admitted(p, "DELETE /api/sweets/:id")
  /\ SweetService_deleteSweet_existsById_with(p, http[p].params.id)

InventoryController_purchaseSweet(p) ==
  /\ Admitted(p, "POST /api/sweets/:id/purchase")
  /\ InventoryService_purchaseSweet_findById_with(p, http[p].params.id)

InventoryController_restockSweet(p) ==
  /\ Admitted(p, "POST /api/sweets/:id/restock")
  /\ pc[p] = "idle"
  /\ IF restockSchema(http[p].body)
     THEN InventoryService_restockSweet_existsById_with(p, http[p].params.id,
                                                       validatedData(http[p].body).quantity)
     ELSE ZodRejected(p)

\* The controllers after their service call has returned or thrown.
Controller_respond(p) ==
  LET route == http[p].route
      r == result[p]
  IN  /\ pc[p] = "done"
      /\ http[p] # NoHttp
      /\ response[p] = NoResponse
      /\ response' = [response EXCEPT ![p] =
           CASE route = "POST /api/sweets" -> SweetController_createSweetResponse(r)
             [] route = "PUT /api/sweets/:id" -> SweetController_updateSweetResponse(r)
             [] route = "DELETE /api/sweets/:id" -> SweetController_deleteSweetResponse(r)
             [] route = "POST /api/sweets/:id/purchase" ->
                  InventoryController_purchaseSweetResponse(r)
             [] route = "POST /api/sweets/:id/restock" ->
                  InventoryController_restockSweetResponse(r)]
      /\ UNCHANGED <<sweets, nextSweetId, users, nextUserId, pc, req, local, result,
                     calls, sweets0, now, http>>

(***************************************************************************)
(* Specification of the requests to the catalog and inventory routes, at   *)
(* hour 24, every one with the token issued to the admin at hour 1.        *)
(***************************************************************************)
ApiHeaders ==
  { [authorization |-> <<BearerPrefix, PresentedToken("issued", AdminHolder, 1)>>] }

CreateBodies ==
  { [name |-> "Ladoo", category |-> "Indian", price |-> Decimal(2, 0),
     quantity |-> Decimal(1, 0)],
    [name |-> "Ladoo", category |-> "Indian", price |-> Decimal(1, 50),
     quantity |-> Decimal(1, 0)],
    [name |-> "Ladoo", category |-> "Indian", price |-> Decimal(0, 0),
     quantity |-> Decimal(1, 0)],
    [name |-> "Ladoo", category |-> "Indian", price |-> Decimal(2, 0),
     quantity |-> Decimal(-1, 0)],
    [name |-> "Ladoo", category |-> "Indian", quantity |-> Decimal(1, 50)] }

UpdateBodies ==
  { << >>, [quantity |-> Decimal(0, 0)], [quantity |-> Decimal(-1, 0)],
    [price |-> Decimal(0, 0)], [price |-> Decimal(3, 0), quantity |-> Decimal(2, 0)] }

RestockBodies ==
  { << >>, [quantity |-> Decimal(-1, 0)], [quantity |-> Decimal(0, 0)],
    [quantity |-> Decimal(10, 50)], [quantity |-> Decimal(5, 0)] }

Params(route) ==
  IF route = "POST /api/sweets" THEN {NoValue}
  ELSE {[id |-> id] : id \in TargetIds}

Bodies(route) ==
  CASE route = "POST /api/sweets" -> CreateBodies
    [] route = "PUT /api/sweets/:id" -> UpdateBodies
    [] route = "POST /api/sweets/:id/restock" -> RestockBodies
    [] OTHER -> {NoValue}

\* A request arrives and goes through the middleware of its route.
Router_handle_request(p) ==
  \E route \in Routes, headers \in ApiHeaders :
    \E params \in Params(route), body \in Bodies(route) :
      Router_handle_with(p, route, headers, params, body)

ApiStep(p) ==
  \/ Router_handle_request(p)
  \/ SweetController_createSweet(p)
  \/ SweetController_updateSweet(p)
  \/ SweetService_updateSweet_update(p)
  \/ SweetController_deleteSweet(p)
  \/ SweetService_deleteSweet_delete(p)
  \/ InventoryController_purchaseSweet(p)
  \/ InventoryService_purchaseSweet_decrementQuantity(p)
  \/ InventoryController_restockSweet(p)
  \/ InventoryService_restockSweet_incrementQuantity(p)
  \/ Controller_respond(p)

NextApi == \E p \in Procs : ApiStep(p)

SpecApi == InitGate /\ [][NextApi]_vars

(***************************************************************************)
(* Claims about the HTTP boundary.                                         *)
(***************************************************************************)
\* The positive integers among the numbers the request bodies carry.
PositiveIntegers == {Decimal(n, 0) : n \in 1 .. 10}

\* Request p is a POST /api/sweets/:id/restock of an authenticated admin
\* whose body has no quantity or a quantity that is not a positive integer.
AdminRestockWithBadQuantity(p) ==
  /\ http[p] # NoHttp
  /\ http[p].route = "POST /api/sweets/:id/restock"
  /\ http[p].authenticate = PassedOn /\ http[p].user.role = "admin"
  /\ http[p].requireAdmin = PassedOn
  /\ ~( "quantity" \in DOMAIN http[p].body
        /\ http[p].body.quantity \in PositiveIntegers )

\* C26: a POST /api/sweets/:id/restock of an authenticated admin whose body
\* quantity is negative, zero, missing or not an integer is answered with
\* 400, InventoryService.restockSweet is never invoked for it, and no
\* stored quantity changes.
C26_RestockBodyRejected ==
  /\ [](\A p \in Procs :
         AdminRestockWithBadQuantity(p)
         => /\ ~ServiceInvoked(p)
            /\ pc[p] \in {"idle", "done"}
            /\ pc[p] = "done" => response[p].status = 400)
  /\ [][ \A p \in Procs :
          ( AdminRestockWithBadQuantity(p) /\ pc[p] # pc'[p] )
          => /\ sweets' = sweets
             /\ response'[p] = ValidationFailed ]_vars

\* The restock requests of an admin with a quantity of 10.5 and with no
\* quantity have both been answered with 400, the Sweet still at its
\* initial quantity.
C26_Witness ==
  \E p, q \in Procs :
    /\ AdminRestockWithBadQuantity(p) /\ AdminRestockWithBadQuantity(q)
    /\ http[p].body = [quantity |-> Decimal(10, 50)]
    /\ http[q].body = << >>
    /\ http[p].params.id = SeedSweetId /\ http[q].params.id = SeedSweetId
    /\ response[p].status = 400 /\ response[q].status = 400
    /\ sweets = sweets0

\* The error kinds the services name.
NamedKinds == {SweetNotFound, OutOfStock, InvalidPrice, InvalidQuantity, InvalidRestock}

\* The middleware of its route let request p through to the controller.
LetThrough(p) ==
  /\ http[p] # NoHttp
  /\ http[p].authenticate = PassedOn
  /\ http[p].requireAdmin \in {PassedOn, NotRun}

\* The body of request p would make its service throw 'Price must be a
\* positive number', 'Quantity must be a non-negative number' or 'Restock
\* quantity must be a positive number'.
WouldRaiseInvalid(p) ==
  LET body == http[p].body
  IN  \/ /\ http[p].route \in {"POST /api/sweets", "PUT /api/sweets/:id"}
         /\ \/ "price" \in DOMAIN body /\ body.price <= 0
            \/ "quantity" \in DOMAIN body /\ body.quantity < 0
      \/ /\ http[p].route = "POST /api/sweets/:id/restock"
         /\ "quantity" \in DOMAIN body /\ body.quantity <= 0

\* C29: a create, update, delete, purchase or restock request is answered
\* with 500 only when its service call failed with an error that is none
\* of the named kinds; 'Sweet not found' is answered with 404, 'Sweet is
\* out of stock' with 400; and a body that would make the service throw an
\* invalid price or quantity error is answered with 400 'Validation
\* failed' without the service being invoked, so that no service call
\* behind the boundary fails with those kinds.
C29_StatusOfErrorKinds ==
  \A p \in Procs :
    /\ ( LetThrough(p) /\ response[p] # NoResponse )
       => /\ response[p].status = 500
             => result[p].outcome \notin NamedKinds \cup {"ok", "pending"}
          /\ result[p].outcome = SweetNotFound => response[p] = NotFound
          /\ result[p].outcome = OutOfStock => response[p].status = 400
    /\ result[p].outcome \notin {InvalidPrice, InvalidQuantity, InvalidRestock}
    /\ ( LetThrough(p) /\ WouldRaiseInvalid(p) )
       => /\ ~ServiceInvoked(p)
          /\ pc[p] = "done" => response[p] = ValidationFailed

\* One request was answered 500 for the store's rejection of the price 1.5
\* and another 404 for an id the catalog does not hold.
C29_Witness ==
  \E p, q \in Procs :
    /\ LetThrough(p) /\ LetThrough(q)
    /\ result[p].outcome = InvalidValue /\ response[p].status = 500
    /\ result[q].outcome = SweetNotFound /\ response[q].status = 404

(***************************************************************************)
(* The seed script (prisma/seed.ts): main() upserts the admin, the user    *)
(* and the sample sweets, one awaited call after the other, and stops at   *)
(* the first call that rejects.                                            *)
(***************************************************************************)
SeedAdminEmail ==
  <<"a", "d", "m", "i", "n", "@", "s", "w", "e", "e", "t", "s", "h", "o", "p", ".", "c", "o", "m">>
SeedUserEmail ==
  <<"u", "s", "e", "r", "@", "s", "w", "e", "e", "t", "s", "h", "o", "p", ".", "c", "o", "m">>
SeedAdminPassword == <<"a", "d", "m", "i", "n", "1", "2", "3">>
SeedUserPassword == <<"u", "s", "e", "r", "1", "2", "3">>

SeedSweets ==
  <<[name |-> "Milk Chocolate Bar", category |-> "chocolate",
     price |-> Decimal(2, 50), quantity |-> 100],
    [name |-> "Dark Chocolate Truffle", category |-> "chocolate",
     price |-> Decimal(3, 50), quantity |-> 50],
    [name |-> "Strawberry Gummy Bears", category |-> "gummy",
     price |-> Decimal(1, 50), quantity |-> 200],
    [name |-> "Sour Worms", category |-> "gummy",
     price |-> Decimal(1, 80), quantity |-> 150],
    [name |-> "Peppermint Candy", category |-> "hard candy",
     price |-> Decimal(1, 0), quantity |-> 300],
    [name |-> "Caramel Chews", category |-> "caramel",
     price |-> Decimal(2, 0), quantity |-> 120],
    [name |-> "Lollipops Assorted", category |-> "lollipop",
     price |-> Decimal(0, 80), quantity |-> 250],
    [name |-> "Chocolate Fudge", category |-> "chocolate",
     price |-> Decimal(3, 0), quantity |-> 75]>>

\* prisma.user.upsert with update {}: the row that has the email, left as
\* it is, or else the row created.
prisma_user_upsert(store, id, data) ==
  IF EmailInUse(store, data.email)
  THEN StoreOk(store, UserRepository_findByEmail(store, data.email))
  ELSE UserRepository_create(store, id, data)

\* What a where clause gives for the id: an id the store generated, or any
\* other text.  The ids of the sweets are generated by the store on create
\* (create passes none), so a text that is not one of them names no row.
GeneratedId(id) == [generated |-> TRUE, id |-> id]
OtherText(text) == [generated |-> FALSE, text |-> text]

\* prisma.sweet.upsert with update {}: the row that has the id, left as it
\* is, or else the row created.
prisma_sweet_upsert(store, id, where, data) ==
  IF where.generated /\ where.id \in DOMAIN store
  THEN StoreOk(store, store[where.id])
  ELSE SweetRepository_create(store, id, data)

UnchangedCatalog == UNCHANGED <<sweets, nextSweetId, sweets0, now, http, response>>

\* main() up to the upsert of the admin: the hash of 'admin123', the upsert.
seed_main_admin(p) ==
  \E salt \in Salts :
    LET r == prisma_user_upsert(users, nextUserId,
               [email |-> SeedAdminEmail,
                passwordHash |-> PasswordService_hashPassword(SeedAdminPassword, salt),
                role |-> "admin"])
    IN  /\ pc[p] = "idle"
        /\ req' = [req EXCEPT ![p] = [op |-> "seed"]]
        /\ users' = r.store
        /\ nextUserId' = IF r.store = users THEN nextUserId ELSE nextUserId + 1
        /\ Invoke(p, "user.upsert")
        /\ Proceed(p, r.error, "seed.user")
        /\ UNCHANGED local
        /\ UnchangedCatalog

\* main() on to the upsert of the user: the hash of 'user123', the upsert.
seed_main_user(p) ==
  \E salt \in Salts :
    LET r == prisma_user_upsert(users, nextUserId,
               [email |-> SeedUserEmail,
                passwordHash |-> PasswordService_hashPassword(SeedUserPassword, salt),
                role |-> "user"])
    IN  /\ pc[p] = "seed.user"
        /\ users' = r.store
        /\ nextUserId' = IF r.store = users THEN nextUserId ELSE nextUserId + 1
        /\ local' = [local EXCEPT ![p] = [index |-> 1]]
        /\ Proceed(p, r.error, "seed.sweets")
        /\ UNCHANGED <<req, calls>>
        /\ UnchangedCatalog

\* One turn of the loop over the sample sweets: the upsert of the next one;
\* main() returns after the last, and ends at the first upsert that rejects.
seed_main_sweet(p) ==
  LET sweet == SeedSweets[local[p].index]
      r == prisma_sweet_upsert(sweets, nextSweetId, OtherText(sweet.name), sweet)
  IN  /\ pc[p] = "seed.sweets"
      /\ sweets' = r.store
      /\ nextSweetId' = IF r.store = sweets THEN nextSweetId ELSE nextSweetId + 1
      /\ Invoke(p, "sweet.upsert")
      /\ IF r.error # "" THEN Finish(p, Failure(r.error)) /\ UNCHANGED local
         ELSE IF local[p].index = Len(SeedSweets)
         THEN Finish(p, Success(NoValue)) /\ UNCHANGED local
         ELSE /\ local' = [local EXCEPT ![p] = [index |-> @.index + 1]]
              /\ UNCHANGED <<pc, result>>
      /\ UNCHANGED <<users, nextUserId, req, sweets0, now, http, response>>

(***************************************************************************)
(* Specification of the seeding: the database starts empty; every request  *)
(* is a run of the seed script or a login with the credentials of the      *)
(* README or of the script, one request at a time.                         *)
(***************************************************************************)
ReadmeAdminPassword == SeedAdminPassword \o <<"4", "5", "6">>
ReadmeUserPassword == SeedUserPassword \o <<"4", "5", "6">>

SeedLogins ==
  { <<SeedAdminEmail, ReadmeAdminPassword>>, <<SeedAdminEmail, SeedAdminPassword>>,
    <<SeedUserEmail, ReadmeUserPassword>>, <<SeedUserEmail, SeedUserPassword>> }

InitSeed ==
  /\ sweets = << >>
  /\ sweets0 = sweets
  /\ nextSweetId = 1
  /\ users = << >>
  /\ nextUserId = 1
  /\ pc = [p \in Procs |-> "idle"]
  /\ req = [p \in Procs |-> NoRequest]
  /\ local = [p \in Procs |-> NoValue]
  /\ result = [p \in Procs |-> Pending]
  /\ response = [p \in Procs |-> NoResponse]
  /\ calls = [p \in Procs |-> {}]
  /\ now = 0
  /\ http = [p \in Procs |-> NoHttp]

SeedStep(p) ==
  \/ seed_main_admin(p)
  \/ seed_main_user(p)
  \/ seed_main_sweet(p)
  \/ \E login \in SeedLogins : AuthService_loginUser_with(p, login[1], login[2])

NextSeed == \E p \in Procs : NoneInFlightBut(p) /\ SeedStep(p)

SpecSeed == InitSeed /\ [][NextSeed]_vars

(***************************************************************************)
(* Claims about the seeding.                                               *)
(***************************************************************************)
\* A run of the seed script has ended.
SeedHasRun == \E p \in Procs : Done(p) /\ Called(p, "seed")

\* Request q logs in with the email and the password.
LogsIn(q, email, password) ==
  /\ pc[q] = "idle" /\ Called(q, "loginUser")'
  /\ req'[q].email = email /\ req'[q].password = password

LoggedInAs(q, role) == Succeeded(q)' /\ result'[q].value.user.role = role

\* C25: once the seed script has run on an empty database, a login with
\* 'admin@sweetshop.com' and 'admin123456' succeeds with role 'admin', a
\* login with 'user@sweetshop.com' and 'user123456' succeeds with role
\* 'user', and the catalog holds exactly 8 sweets.
C25_SeededLogins ==
  /\ [](SeedHasRun => Cardinality(DOMAIN sweets) = 8)
  /\ [][ \A q \in Procs :
          /\ ( SeedHasRun /\ LogsIn(q, SeedAdminEmail, ReadmeAdminPassword) )
             => LoggedInAs(q, "admin")
          /\ ( SeedHasRun /\ LogsIn(q, SeedUserEmail, ReadmeUserPassword) )
             => LoggedInAs(q, "user") ]_vars

\* Request p takes a step of a run of the seed script.
SeedRuns(p) == pc[p] # pc'[p] /\ Called(p, "seed")'

\* C30: the seed script is idempotent: a run that follows a run leaves the
\* users and the sweets as the run before it left them, the sweets being
\* the 8 of the script.
C30_SeedIdempotent ==
  /\ [](SeedHasRun => Cardinality(DOMAIN sweets) = Len(SeedSweets))
  /\ [][ \A p \in Procs :
          ( SeedHasRun /\ SeedRuns(p) ) => users' = users /\ sweets' = sweets ]_vars

====
